---- MODULE Spec2Model ----
(***************************************************************************)
(* AutoRFP: the content cache (helpers/cache_utils.py) over the MongoDB    *)
(* store adapter (db/abstractdb.py, db/mongodb.py), the artifact classes   *)
(* (models/basemodel.py, models/modules.py) and the generation pipeline    *)
(* Modules.from_sow.                                                       *)
(*                                                                         *)
(* Python values are tagged records [t |-> type, v |-> value], so that a   *)
(* dict, a list, a str, a number, a bool and None can sit in one field     *)
(* and isinstance() can be asked of them.                                  *)
(***************************************************************************)
EXTENDS Integers, Sequences, FiniteSets, TLC

VARIABLES
    store,       \* the MongoDB database: collection name -> sequence of documents
    collection,  \* MongoDB.collection, the active collection of the getDB singleton
    now,         \* datetime.now(timezone.utc), in seconds
    log,         \* the lines logged or printed by the latest operation
    ret,         \* the latest cache_utils call and what it returned
    pc,          \* per from_sow request: where it stands
    req,         \* per from_sow request: its arguments (sow, best_of, regenerate)
    responses,   \* per from_sow request: what call_openai returned
    result,      \* per from_sow request: the object returned to the caller
    error,       \* per from_sow request: the exception raised to the caller
    backend,     \* per from_sow request: number of call_openai calls issued
    bg           \* per from_sow request: its background thread running cas.save

vars == <<store, collection, now, log, ret,
          pc, req, responses, result, error, backend, bg>>

cache_vars == <<store, collection, now, log, ret>>
sow_vars == <<pc, req, responses, result, error, backend, bg>>

-----------------------------------------------------------------------------
(* Python values *)

PNone == [t |-> "none", v |-> 0]
PNum(n) == [t |-> "num", v |-> n]
PStr(s) == [t |-> "str", v |-> s]
PBool(b) == [t |-> "bool", v |-> b]
PList(s) == [t |-> "list", v |-> s]
PDict(f) == [t |-> "dict", v |-> f]

\* datetime.isoformat() and datetime.fromisoformat(): a timestamp travels as a str
isoformat(n) == [t |-> "str", v |-> <<"iso", n>>]
fromisoformat(s) == s.v[2]
\* a str that is not in ISO format
NotIso == [t |-> "str", v |-> <<"soon", 0>>]
\* what fromisoformat(s) raises: TypeError for a non-str argument, ValueError for
\* a str that is not in ISO format
fromisoformat_error(s) ==
    IF s.t # "str" THEN "TypeError"
    ELSE IF s.v[1] # "iso" THEN "ValueError"
    ELSE "none"

-----------------------------------------------------------------------------
(* db/abstractdb.py and db/mongodb.py: the store adapter.  A document is a  *)
(* function from field names to values; a collection is the sequence of     *)
(* its documents in insertion order.  One pymongo call is one atomic step   *)
(* of the server.                                                           *)

KEY_FIELD == "__key__"
TIMESTAMP_FIELD == "timestamp"

INBUILD_ID_FIELD == "_id"

EmptyDoc == <<>>

\* projection={INBUILD_ID_FIELD: False}
Projected(doc) == [f \in DOMAIN doc \ {INBUILD_ID_FIELD} |-> doc[f]]

\* positions of the documents of collection c whose hidden key field is key
Matching(db, c, key) ==
    {i \in 1..Len(db[c]) : KEY_FIELD \in DOMAIN db[c][i] /\ db[c][i][KEY_FIELD] = key}

Min(S) == CHOOSE x \in S : \A y \in S : x <= y

\* MongoDB._get: find_one(filter={KEY_FIELD: key}) or {}
_get(db, c, key) ==
    IF Matching(db, c, key) = {} THEN EmptyDoc
    ELSE Projected(db[c][Min(Matching(db, c, key))])

\* AbstractDB._remove_key_field on one document: obj.pop(KEY_FIELD, None)
_remove_key_field(obj) == [f \in DOMAIN obj \ {KEY_FIELD} |-> obj[f]]

\* AbstractDB.get
get(db, c, key) == _remove_key_field(_get(db, c, key))

\* AbstractDB._add_timestamp on one document
_add_timestamp(obj, t) == (TIMESTAMP_FIELD :> isoformat(t)) @@ obj

\* _upsert that keeps the fields of the document already stored
_upsert_keep_old(db, c, value, key, ok) ==
    IF ~ok THEN db
    ELSE IF Matching(db, c, key) = {}
         THEN [db EXCEPT ![c] = Append(@, (KEY_FIELD :> key) @@ value)]
         ELSE [db EXCEPT ![c][Min(Matching(db, c, key))] = @ @@ value]

\* _upsert that inserts a new document whether or not one matches the filter
_upsert_insert(db, c, value, key, ok) ==
    IF ~ok THEN db
    ELSE [db EXCEPT ![c] = Append(@, (KEY_FIELD :> key) @@ value)]

\* _upsert that updates the first document of the collection, whatever its key
_upsert_first(db, c, value, key, ok) ==
    IF ~ok THEN db
    ELSE IF db[c] = <<>>
         THEN [db EXCEPT ![c] = Append(@, (KEY_FIELD :> key) @@ value)]
         ELSE [db EXCEPT ![c][1] = value @@ @]

\* MongoDB._upsert: update_one({KEY_FIELD: key}, {"$set": value}, upsert=True);
\* ok = FALSE is the branch where pymongo raises and the adapter returns False
_upsert(db, c, value, key, ok) ==
    IF ~ok THEN db
    ELSE IF Matching(db, c, key) = {}
         THEN [db EXCEPT ![c] = Append(@, (KEY_FIELD :> key) @@ value)]
         ELSE [db EXCEPT ![c][Min(Matching(db, c, key))] = value @@ @]

\* upsert whose write reaches the collection although the adapter reports a failure
upsert_despite_failure(db, c, value, key, t, ok) ==
    _upsert(db, c, (KEY_FIELD :> key) @@ _add_timestamp(value, t), key, TRUE)

\* AbstractDB.upsert
upsert(db, c, value, key, t, ok) ==
    _upsert(db, c, (KEY_FIELD :> key) @@ _add_timestamp(value, t), key, ok)

RemoveAt(s, i) == [j \in 1..(Len(s) - 1) |-> IF j < i THEN s[j] ELSE s[j + 1]]

\* a _delete whose delete_one reaches the collection although it reports a failure
_delete_despite_failure(db, c, key, ok) ==
    IF Matching(db, c, key) = {} THEN db
    ELSE [db EXCEPT ![c] = RemoveAt(@, Min(Matching(db, c, key)))]

\* MongoDB._delete: delete_one({KEY_FIELD: key}); the result is deleted_count > 0
_delete(db, c, key, ok) ==
    IF ~ok \/ Matching(db, c, key) = {} THEN db
    ELSE [db EXCEPT ![c] = RemoveAt(@, Min(Matching(db, c, key)))]

_delete_result(db, c, key, ok) == ok /\ Matching(db, c, key) # {}

-----------------------------------------------------------------------------
(* helpers/cache_utils.py: the content cache *)

DocField(doc, f) == IF f \in DOMAIN doc THEN doc[f] ELSE PNone

\* the log line load() writes, if any
load_log(db, c, key, get_expired, t) ==
    LET data == get(db, c, key)
        d == DocField(data, "data")
        e == DocField(data, "expires_at")
    IN  IF d.t # "dict" \/ get_expired \/ e.t = "none" THEN {}
        ELSE IF fromisoformat(e) - t < 0 THEN {<<"EXPIRED", c, key>>}
        ELSE {<<"FOUND", c, key>>}

\* load() with the expiry test off by one: an entry is dropped at now = expires_at
load_expire_early(db, c, key, get_expired, t) ==
    LET data == get(db, c, key)
        d == DocField(data, "data")
        e == DocField(data, "expires_at")
    IN  IF d.t # "dict" THEN PNone
        ELSE IF get_expired \/ e.t = "none" THEN d
        ELSE IF fromisoformat(e) - t <= 0 THEN PNone
        ELSE d

\* load() without the expiry test
load_any_age(db, c, key, get_expired, t) ==
    LET data == get(db, c, key)
        d == DocField(data, "data")
    IN  IF d.t # "dict" THEN PNone ELSE d

\* load(key, collection, get_expired) at time t: the payload, or None
load(db, c, key, get_expired, t) ==
    LET data == get(db, c, key)
        d == DocField(data, "data")
        e == DocField(data, "expires_at")
    IN  IF d.t # "dict" THEN PNone
        ELSE IF get_expired \/ e.t = "none" THEN d
        ELSE IF fromisoformat(e) - t < 0 THEN PNone
        ELSE d

\* what load() raises: the error of the driver when find_one fails (readok = FALSE),
\* or the error of fromisoformat on the wrapper's expires_at
load_error(db, c, key, get_expired, readok) ==
    LET data == get(db, c, key)
        d == DocField(data, "data")
        e == DocField(data, "expires_at")
    IN  IF ~readok THEN "PyMongoError"
        ELSE IF d.t # "dict" \/ get_expired \/ e.t = "none" THEN "none"
        ELSE fromisoformat_error(e)

\* an expires_at that forgets to add the ttl
expires_at_of_now(ttl, t) == IF ttl.t = "none" THEN PNone ELSE isoformat(t)

\* the expires_at that save() computes at time t; ttl is None or a PNum of seconds
expires_at_of(ttl, t) == IF ttl.t = "none" THEN PNone ELSE isoformat(t + ttl.v)

\* a save that stores an empty payload instead of the data it was given
save_no_payload(db, c, key, data, ttl, t, ok) ==
    upsert(db, c, [data |-> PDict(<<>>), expires_at |-> expires_at_of(ttl, t)], key, t, ok)

\* save(key, collection, data, expire_after_seconds) at time t: the database after it
save(db, c, key, data, ttl, t, ok) ==
    upsert(db, c, [data |-> data, expires_at |-> expires_at_of(ttl, t)], key, t, ok)

\* what save() logs and the adapter prints
save_log(c, key, ok) ==
    {<<"SAVED", c, key>>} \cup (IF ok THEN {} ELSE {<<"Upsert failed", c, key>>})

\* delete(key, collection): the database after it
delete(db, c, key, ok) == _delete(db, c, key, ok)

delete_log(db, c, key, ok) ==
    IF _delete_result(db, c, key, ok) THEN {<<"DELETED", c, key>>}
    ELSE {<<"NOT FOUND", c, key>>} \cup (IF ok THEN {} ELSE {<<"Delete failed", c, key>>})

-----------------------------------------------------------------------------
(* models/modules.py: the artifact tree Modules > ModuleModel > TaskModel >  *)
(* TaskCategoryModel.  An object is a record of its fields; hours holds a    *)
(* Python value, because the field's default is a str that pydantic does not *)
(* validate.                                                                 *)

TaskCategory == <<"Frontend", "Backend", "AI">>

CATEGORY_DEFAULT == "Can be one of Frontend, Backend, AI"
HOURS_DEFAULT ==
    PStr("Estimated amount of hours required. Must be an int or float greater than 0")
SUBTASK_DEFAULT == "Short description of the task"
SUBTASK_NAME_DEFAULT == "A very short name for the subtask (2-4 words). Must be unique."

\* TaskCategoryModel(category=c)
TaskCategoryModel(c) ==
    [category |-> c, hours |-> HOURS_DEFAULT, subtask |-> SUBTASK_DEFAULT,
     short_name |-> SUBTASK_NAME_DEFAULT]

\* TaskModel()
TaskModel ==
    [task |-> "Name of the task",
     description |-> "Description of the Task along with what to implement",
     categories |-> [i \in 1..Len(TaskCategory) |-> TaskCategoryModel(TaskCategory[i])],
     short_name |-> "A very short name for the task (2-4 words). Must be unique."]

\* ModuleModel()
ModuleModel ==
    [module |-> "Name of the bigger module which the tasks are a part of.",
     short_name |-> "A very short name for the module (2-4 words). Must be unique.",
     tasks |-> <<TaskModel>>]

\* Modules()
Modules == [project_name |-> "Name of the project.", modules |-> <<ModuleModel>>]

(* pydantic validation, cls(data as keywords): an absent field takes the    *)
(* class default unvalidated, a present field must have the field type,     *)
(* an unknown field is ignored.  The result is [ok, obj]; ok = FALSE is a    *)
(* ValidationError (TypeError when data is no mapping).                      *)

HasKey(d, f) == f \in DOMAIN d.v
StrOk(d, f) == ~HasKey(d, f) \/ d.v[f].t = "str"
StrOf(d, f, default) == IF HasKey(d, f) THEN d.v[f].v ELSE default
ListOk(d, f) == ~HasKey(d, f) \/ d.v[f].t = "list"
ListOf(d, f) == IF HasKey(d, f) THEN d.v[f].v ELSE <<>>

\* hours: float = Field(..., ge=0)
HoursOk(d) == ~HasKey(d, "hours") \/ (d.v["hours"].t = "num" /\ d.v["hours"].v >= 0)

TaskCategoryModel_validate(d) ==
    IF d.t = "dict" /\ StrOk(d, "category") /\ HoursOk(d) /\ StrOk(d, "subtask")
       /\ StrOk(d, "short_name")
    THEN [ok |-> TRUE,
          obj |-> [category |-> StrOf(d, "category", CATEGORY_DEFAULT),
                   hours |-> IF HasKey(d, "hours") THEN d.v["hours"] ELSE HOURS_DEFAULT,
                   subtask |-> StrOf(d, "subtask", SUBTASK_DEFAULT),
                   short_name |-> StrOf(d, "short_name", SUBTASK_NAME_DEFAULT)]]
    ELSE [ok |-> FALSE, obj |-> TaskCategoryModel(CATEGORY_DEFAULT)]

TaskModel_validate(d) ==
    IF d.t = "dict" /\ StrOk(d, "task") /\ StrOk(d, "description")
       /\ StrOk(d, "short_name") /\ ListOk(d, "categories")
       /\ \A i \in 1..Len(ListOf(d, "categories")) :
              TaskCategoryModel_validate(ListOf(d, "categories")[i]).ok
    THEN [ok |-> TRUE,
          obj |-> [task |-> StrOf(d, "task", TaskModel.task),
                   description |-> StrOf(d, "description", TaskModel.description),
                   categories |->
                       IF HasKey(d, "categories")
                       THEN [i \in 1..Len(ListOf(d, "categories")) |->
                                 TaskCategoryModel_validate(ListOf(d, "categories")[i]).obj]
                       ELSE TaskModel.categories,
                   short_name |-> StrOf(d, "short_name", TaskModel.short_name)]]
    ELSE [ok |-> FALSE, obj |-> TaskModel]

ModuleModel_validate(d) ==
    IF d.t = "dict" /\ StrOk(d, "module") /\ StrOk(d, "short_name")
       /\ ListOk(d, "tasks")
       /\ \A i \in 1..Len(ListOf(d, "tasks")) : TaskModel_validate(ListOf(d, "tasks")[i]).ok
    THEN [ok |-> TRUE,
          obj |-> [module |-> StrOf(d, "module", ModuleModel.module),
                   short_name |-> StrOf(d, "short_name", ModuleModel.short_name),
                   tasks |-> IF HasKey(d, "tasks")
                             THEN [i \in 1..Len(ListOf(d, "tasks")) |->
                                       TaskModel_validate(ListOf(d, "tasks")[i]).obj]
                             ELSE ModuleModel.tasks]]
    ELSE [ok |-> FALSE, obj |-> ModuleModel]

Modules_validate(d) ==
    IF d.t = "dict" /\ StrOk(d, "project_name") /\ ListOk(d, "modules")
       /\ \A i \in 1..Len(ListOf(d, "modules")) :
              ModuleModel_validate(ListOf(d, "modules")[i]).ok
    THEN [ok |-> TRUE,
          obj |-> [project_name |-> StrOf(d, "project_name", Modules.project_name),
                   modules |-> IF HasKey(d, "modules")
                               THEN [i \in 1..Len(ListOf(d, "modules")) |->
                                         ModuleModel_validate(ListOf(d, "modules")[i]).obj]
                               ELSE Modules.modules]]
    ELSE [ok |-> FALSE, obj |-> Modules]

(* BaseModel.to_dict: model_dump(mode="json") *)

TaskCategoryModel_to_dict(o) ==
    PDict([category |-> PStr(o.category), hours |-> o.hours, subtask |-> PStr(o.subtask),
           short_name |-> PStr(o.short_name)])

TaskModel_to_dict(o) ==
    PDict([task |-> PStr(o.task), description |-> PStr(o.description),
           categories |-> PList([i \in DOMAIN o.categories |->
                                     TaskCategoryModel_to_dict(o.categories[i])]),
           short_name |-> PStr(o.short_name)])

ModuleModel_to_dict(o) ==
    PDict([module |-> PStr(o.module), short_name |-> PStr(o.short_name),
           tasks |-> PList([i \in DOMAIN o.tasks |-> TaskModel_to_dict(o.tasks[i])])])

to_dict(o) ==
    PDict([project_name |-> PStr(o.project_name),
           modules |-> PList([i \in DOMAIN o.modules |-> ModuleModel_to_dict(o.modules[i])])])

(* The derived aggregates.  sum() over hours raises TypeError as soon as one *)
(* hours is not a number.                                                    *)

RECURSIVE SeqSum(_)
SeqSum(s) == IF s = <<>> THEN 0 ELSE s[1] + SeqSum(Tail(s))

TaskModel_hours(t) == SeqSum([i \in DOMAIN t.categories |-> t.categories[i].hours.v])
TaskModel_subtasks(t) == Len(t.categories)
ModuleModel_hours(m) == SeqSum([i \in DOMAIN m.tasks |-> TaskModel_hours(m.tasks[i])])
\* a subtask count that counts the tasks of a module, not their categories
ModuleModel_subtasks_tasks(m) == Len(m.tasks)

ModuleModel_subtasks(m) == SeqSum([i \in DOMAIN m.tasks |-> TaskModel_subtasks(m.tasks[i])])
hours(o) == SeqSum([i \in DOMAIN o.modules |-> ModuleModel_hours(o.modules[i])])
subtasks(o) == SeqSum([i \in DOMAIN o.modules |-> ModuleModel_subtasks(o.modules[i])])

\* Modules.hours raises TypeError: some leaf hours is not a number
hours_raises(o) ==
    \E i \in DOMAIN o.modules : \E j \in DOMAIN o.modules[i].tasks :
        \E k \in DOMAIN o.modules[i].tasks[j].categories :
            o.modules[i].tasks[j].categories[k].hours.t # "num"

(* BaseModel.from_yaml(data) with fuzzy=False.  A completion is the text of  *)
(* the model's answer: [fence, doc], doc being what yaml.safe_load makes of  *)
(* the text inside the fence (YamlError: the text is no YAML), and fence     *)
(* telling how the answer wraps it: "none", "lang" (a code fence of three   *)
(* backticks followed by a language word) or "bare" (a fence with no word). *)

YamlError == [t |-> "yaml_error", v |-> 0]

\* remove_backticks: the regex asks for \w+ after the opening fence, so only a
\* fence that names a language is removed
remove_backticks(text) == IF text.fence = "lang" THEN [text EXCEPT !.fence = "none"] ELSE text

clean_yaml_str(text) == remove_backticks(text)

\* yaml.safe_load: a backtick cannot start a YAML token
safe_load(text) == IF text.fence # "none" THEN YamlError ELSE text.doc

\* from_dict(data, fuzzy=False) on what safe_load returned: [ok, obj, error]
from_dict(data) ==
    IF data.t = "yaml_error" THEN [ok |-> FALSE, obj |-> Modules, error |-> "YAMLError"]
    ELSE IF data.t # "dict" THEN [ok |-> FALSE, obj |-> Modules, error |-> "TypeError"]
    ELSE IF ~Modules_validate(data).ok
         THEN [ok |-> FALSE, obj |-> Modules, error |-> "ValidationError"]
    ELSE [ok |-> TRUE, obj |-> Modules_validate(data).obj, error |-> "none"]

\* from_yaml: [ok, obj, error]
from_yaml(text) ==
    CHOOSE r \in {from_dict(data) : data \in {safe_load(clean_yaml_str(text))}} : TRUE

(* BaseModel.from_dict(data, fuzzy=True, cutoff).  A cutoff is a Python      *)
(* number [t, v]: t is "float" or "int" and v the value in hundredths, so    *)
(* that 0.5 is [t |-> "float", v |-> 50].  The similarity of a field name    *)
(* and a key is given by score, a table with values from 0 to 100 (the       *)
(* WRatio of fuzzywuzzy).                                                    *)

\* cls.model_fields of Modules
model_fields == {"project_name", "modules"}

\* Match(None, 0)
NoMatch == [text |-> "None", score |-> 0]

\* find_best_match(query, options): the matches extractOne may return, a key of
\* maximal score (the first one in the order of the dict), or Match(None, 0)
find_best_match(query, options, score) ==
    IF options = {} THEN {NoMatch}
    ELSE {[text |-> o, score |-> score[<<query, o>>]] :
              o \in {k \in options : \A k2 \in options :
                                       score[<<query, k2>>] <= score[<<query, k>>]}}

\* lines 108-109: a cutoff that is no float between 0 and 1 becomes 0.0
effective_cutoff(cutoff) ==
    IF cutoff.t # "float" \/ cutoff.v > 100 \/ cutoff.v < 0 THEN 0 ELSE cutoff.v

\* lines 114-118: the fields kept, score >= cutoff, with the key each one takes
field_col_map(match, cutoff) ==
    [f \in {g \in model_fields : match[g].score * 100 >= effective_cutoff(cutoff)}
        |-> match[f].text]

\* from_dict(data, fuzzy=True, cutoff) with the matches find_best_match returned:
\* [ok, obj, error]; data[None] is a KeyError
from_dict_fuzzy(data, cutoff, match) ==
    LET cols == field_col_map(match, cutoff)
    IN  IF \E f \in DOMAIN cols : cols[f] \notin DOMAIN data.v
        THEN [ok |-> FALSE, obj |-> Modules, error |-> "KeyError"]
        ELSE from_dict(PDict([f \in DOMAIN cols |-> data.v[cols[f]]]))

(* to_yaml / to_json and from_json.  The text of an encoding is [fence, doc]  *)
(* as above, plus, for JSON, cut: remove_comments has deleted the rest of a  *)
(* line.  What the regexes match depends on the characters of the str        *)
(* values, so the strings whose spelling matters are spelled out.            *)

\* the characters of the strings that contain slashes or blanks
Spelling ==
    ("a//b" :> <<"a", "/", "/", "b">>)
    @@ ("a // b" :> <<"a", " ", "/", "/", " ", "b">>)
    @@ ("a //b" :> <<"a", " ", "/", "/", "b">>)
    @@ ("a// b" :> <<"a", "/", "/", " ", "b">>)
    @@ ("a / b" :> <<"a", " ", "/", " ", "b">>)
    @@ ("ab" :> <<"a", "b">>)

\* where the regex of remove_comments matches in a str: whitespace, two slashes,
\* whitespace (a blank is the only whitespace json.dumps leaves unescaped)
comment_at(cs) ==
    {i \in 1..(Len(cs) - 3) :
        cs[i] = " " /\ cs[i + 1] = "/" /\ cs[i + 2] = "/" /\ cs[i + 3] = " "}

RECURSIVE comment_in(_)
\* some str of the value holds a match of the regex of remove_comments
comment_in(v) ==
    CASE v.t = "str" -> v.v \in DOMAIN Spelling /\ comment_at(Spelling[v.v]) # {}
      [] v.t = "list" -> \E i \in DOMAIN v.v : comment_in(v.v[i])
      [] v.t = "dict" -> \E f \in DOMAIN v.v : comment_in(v.v[f])
      [] OTHER -> FALSE

\* yaml.dump(d): every str double-quoted and escaped, no fence
yaml_dump(d) == [fence |-> "none", doc |-> d]

\* json.dumps(d, indent=4): one value per line, no fence, nothing cut
json_dumps(d) == [fence |-> "none", doc |-> d, cut |-> FALSE]

to_yaml(o) == yaml_dump(to_dict(o))
to_json(o) == json_dumps(to_dict(o))

\* remove_comments: from a match of the regex to the end of the line, which
\* takes the closing quote of the str with it
remove_comments(text) == IF comment_in(text.doc) THEN [text EXCEPT !.cut = TRUE] ELSE text

clean_json_str(text) == remove_comments(remove_backticks(text))

JsonError == [t |-> "json_error", v |-> 0]

\* json.loads: a fence or an unterminated str is a JSONDecodeError
json_loads(text) == IF text.fence # "none" \/ text.cut THEN JsonError ELSE text.doc

\* from_json(data) with fuzzy=False: [ok, obj, error]
from_json(text) ==
    CHOOSE r \in
        { IF data.t = "json_error"
          THEN [ok |-> FALSE, obj |-> Modules, error |-> "JSONDecodeError"]
          ELSE from_dict(data) : data \in {json_loads(clean_json_str(text))} } : TRUE

-----------------------------------------------------------------------------
(* BaseModel.load_from_cache / save_to_cache and Modules.from_sow *)

\* cls.__name__, the default collection of the artifact type
MODULES_COLLECTION == "Modules"

\* save_to_cache's default expire_after_seconds, 3600 * 24 * 90
EXPIRE_AFTER_SECONDS == 7776000

\* from_sow's default best_of
BEST_OF == 3

\* hash_uuid(sow).hex: uuid3 of the text in NAMESPACE_DNS
hash_uuid(sow) ==
    CASE sow = "sowA" -> "45c5d211e4a03095b7c5a9a2e02d5419"
      [] sow = "sowB" -> "70c6d9b34b973ea188ec13b8140ee1a3"

\* the object a call returns: ok = FALSE is None; cached is obj.__is_cached__
None == [ok |-> FALSE, obj |-> Modules, cached |-> FALSE]

\* a load_from_cache that never finds anything
load_from_cache_miss(db, key, get_expired, t) == None

\* load_from_cache(key, return_as_dict=False) of class Modules at time t
load_from_cache(db, key, get_expired, t) ==
    CHOOSE obj \in
        { IF data.t = "none" THEN None
          ELSE IF ~Modules_validate(data).ok THEN None
          ELSE [ok |-> TRUE, obj |-> Modules_validate(data).obj, cached |-> TRUE] :
          data \in {load(db, MODULES_COLLECTION, key, get_expired, t)} } : TRUE

load_from_cache_log(db, key, get_expired, t) ==
    LET data == load(db, MODULES_COLLECTION, key, get_expired, t)
    IN  load_log(db, MODULES_COLLECTION, key, get_expired, t)
        \cup (IF data.t # "none" /\ ~Modules_validate(data).ok
              THEN {<<"Failed to load", MODULES_COLLECTION, key>>} ELSE {})

\* the ranking key of from_sow: (x.subtasks, x.hours), compared as Python tuples
KeyLess(a, b) ==
    \/ subtasks(a) < subtasks(b)
    \/ subtasks(a) = subtasks(b) /\ hours(a) < hours(b)

\* the sort without reverse=True: ascending, stable
RECURSIVE sorted_ascending(_)
sorted_ascending(objects) ==
    IF objects = <<>> THEN <<>>
    ELSE LET n == Len(objects)
             x == objects[n]
             front == sorted_ascending(SubSeq(objects, 1, n - 1))
             larger == {i \in 1..Len(front) : KeyLess(x, front[i])}
             at == IF larger = {} THEN Len(front) + 1 ELSE Min(larger)
         IN  SubSeq(front, 1, at - 1) \o <<x>> \o SubSeq(front, at, Len(front))

\* the ascending sort read backwards: equal keys come out in reverse order
sorted_then_reversed(objects) ==
    CHOOSE s \in {[i \in 1..Len(asc) |-> asc[Len(asc) + 1 - i]] :
                    asc \in {sorted_ascending(objects)}} : TRUE

\* sorted(objects, key=..., reverse=True): stable, so equal keys keep their order
RECURSIVE sorted_reverse(_)
sorted_reverse(objects) ==
    IF objects = <<>> THEN <<>>
    ELSE CHOOSE s \in
        { LET x == objects[Len(objects)]
              \* x goes before the first element with a smaller key
              smaller == {i \in 1..Len(front) : KeyLess(front[i], x)}
              at == IF smaller = {} THEN Len(front) + 1 ELSE Min(smaller)
          IN  SubSeq(front, 1, at - 1) \o <<x>> \o SubSeq(front, at, Len(front)) :
          front \in {sorted_reverse(SubSeq(objects, 1, Len(objects) - 1))} } : TRUE

\* [cls.from_yaml(resp) for resp in responses]: the exception of the first completion
\* that does not parse, or "none"
parse_error(resps) ==
    LET bad == {i \in 1..Len(resps) : ~from_yaml(resps[i]).ok}
    IN  IF bad = {} THEN "none" ELSE from_yaml(resps[Min(bad)]).error

\* a ranking that answers with the default artifact when no completion is left
rank_default(resps) ==
    LET good == {i \in 1..Len(resps) : from_yaml(resps[i]).ok}
    IN  IF good = {} THEN [error |-> "none", obj |-> Modules]
        ELSE [error |-> "none", obj |-> from_yaml(resps[Min(good)]).obj]

\* lines 130-141 of from_sow on the completions: [error, obj]
rank(resps) ==
    CHOOSE r \in
        { IF parse_error(resps) # "none" THEN [error |-> parse_error(resps), obj |-> Modules]
          ELSE IF \E i \in 1..Len(objects) : hours_raises(objects[i])
               THEN [error |-> "TypeError", obj |-> Modules]
          ELSE IF objects = <<>> THEN [error |-> "IndexError", obj |-> Modules]
          ELSE [error |-> "none", obj |-> sorted_reverse(objects)[1]] :
          objects \in {[i \in 1..Len(resps) |-> from_yaml(resps[i]).obj]} } : TRUE

Callers == {1, 2}

NoReq == [sow |-> "", best_of |-> 0, regenerate |-> FALSE]

NoThread == [state |-> "none", key |-> "", data |-> PNone]

\* a from_sow that never looks into the cache
FromSowStartNoCheck(c, r) ==
    /\ pc[c] = "idle"
    /\ req' = [req EXCEPT ![c] = r]
    /\ pc' = [pc EXCEPT ![c] = "generating"]
    /\ UNCHANGED <<store, collection, now, log, ret, responses, result, error, backend, bg>>

\* a from_sow that looks into the cache whatever regenerate is
FromSowStartAlwaysCheck(c, r) ==
    /\ pc[c] = "idle"
    /\ req' = [req EXCEPT ![c] = r]
    /\ \E key \in {hash_uuid(r.sow)} :
        /\ load_error(store, MODULES_COLLECTION, key, FALSE, TRUE) = "none"
        /\ \E obj \in {load_from_cache(store, key, FALSE, now)} :
            /\ collection' = MODULES_COLLECTION
            /\ log' = load_from_cache_log(store, key, FALSE, now)
            /\ ret' = [op |-> "load", key |-> key, coll |-> MODULES_COLLECTION,
                       get_expired |-> FALSE,
                       value |-> load(store, MODULES_COLLECTION, key, FALSE, now),
                       at |-> now]
            /\ IF obj.ok
               THEN /\ result' = [result EXCEPT ![c] = obj]
                    /\ pc' = [pc EXCEPT ![c] = "done"]
               ELSE /\ pc' = [pc EXCEPT ![c] = "generating"]
                    /\ UNCHANGED result
    /\ UNCHANGED <<store, now, responses, error, backend, bg>>

\* from_sow, lines 104-110: the fingerprint and the cache check
FromSowStart(c, r) ==
    /\ pc[c] = "idle"
    /\ req' = [req EXCEPT ![c] = r]
    /\ IF r.regenerate
       THEN /\ pc' = [pc EXCEPT ![c] = "generating"]
            /\ UNCHANGED <<result, collection, log, ret>>
       ELSE \E key \in {hash_uuid(r.sow)} :
            /\ load_error(store, MODULES_COLLECTION, key, FALSE, TRUE) = "none"
            /\ \E obj \in {load_from_cache(store, key, FALSE, now)} :
                /\ collection' = MODULES_COLLECTION
                /\ log' = load_from_cache_log(store, key, FALSE, now)
                /\ ret' = [op |-> "load", key |-> key, coll |-> MODULES_COLLECTION,
                           get_expired |-> FALSE,
                           value |-> load(store, MODULES_COLLECTION, key, FALSE, now),
                           at |-> now]
                /\ IF obj.ok
                   THEN /\ result' = [result EXCEPT ![c] = obj]
                        /\ pc' = [pc EXCEPT ![c] = "done"]
                   ELSE /\ pc' = [pc EXCEPT ![c] = "generating"]
                        /\ UNCHANGED result
    /\ UNCHANGED <<store, now, responses, error, backend, bg>>

\* from_sow, lines 104-108: cas.load raises inside load_from_cache, outside its
\* try block, and the exception leaves from_sow
FromSowCacheError(c, r, readok) ==
    /\ pc[c] = "idle"
    /\ ~r.regenerate
    /\ load_error(store, MODULES_COLLECTION, hash_uuid(r.sow), FALSE, readok) # "none"
    /\ req' = [req EXCEPT ![c] = r]
    /\ collection' = MODULES_COLLECTION
    /\ error' = [error EXCEPT ![c] =
                     load_error(store, MODULES_COLLECTION, hash_uuid(r.sow), FALSE, readok)]
    /\ pc' = [pc EXCEPT ![c] = "failed"]
    /\ UNCHANGED <<store, now, log, ret, responses, result, backend, bg>>

\* from_sow, lines 112-128: call_openai returns the completions resps
FromSowGenerate(c, resps) ==
    /\ pc[c] = "generating"
    /\ Len(resps) <= req[c].best_of
    /\ backend' = [backend EXCEPT ![c] = @ + 1]
    /\ responses' = [responses EXCEPT ![c] = resps]
    /\ pc' = [pc EXCEPT ![c] = "parsing"]
    /\ UNCHANGED <<store, collection, now, log, ret, req, result, error, bg>>

\* a from_sow that calls call_openai a second time before giving up
FromSowBackendRetry(c) ==
    /\ pc[c] = "generating"
    /\ backend' = [backend EXCEPT ![c] = @ + 2]
    /\ error' = [error EXCEPT ![c] = "BackendError"]
    /\ pc' = [pc EXCEPT ![c] = "failed"]
    /\ UNCHANGED <<store, collection, now, log, ret, req, responses, result, bg>>

\* from_sow, lines 123-128: call_openai raises
FromSowBackendError(c) ==
    /\ pc[c] = "generating"
    /\ backend' = [backend EXCEPT ![c] = @ + 1]
    /\ error' = [error EXCEPT ![c] = "BackendError"]
    /\ pc' = [pc EXCEPT ![c] = "failed"]
    /\ UNCHANGED <<store, collection, now, log, ret, req, responses, result, bg>>

\* from_sow, lines 130-141: parse, rank, start the background save, return
FromSowFinish(c) ==
    /\ pc[c] = "parsing"
    /\ \E r \in {rank(responses[c])} :
           IF r.error # "none"
           THEN /\ error' = [error EXCEPT ![c] = r.error]
                /\ pc' = [pc EXCEPT ![c] = "failed"]
                /\ UNCHANGED <<result, bg>>
           ELSE /\ result' = [result EXCEPT ![c] = [ok |-> TRUE, obj |-> r.obj, cached |-> FALSE]]
                /\ bg' = [bg EXCEPT ![c] = [state |-> "pending", key |-> hash_uuid(req[c].sow),
                                            data |-> to_dict(r.obj)]]
                /\ pc' = [pc EXCEPT ![c] = "done"]
                /\ UNCHANGED error
    /\ UNCHANGED <<store, collection, now, log, ret, req, responses, backend>>

\* the thread of run_in_background runs cas.save; ok = FALSE: the upsert fails
BackgroundSave(c, ok) ==
    /\ bg[c].state = "pending"
    /\ store' = save(store, MODULES_COLLECTION, bg[c].key, bg[c].data,
                     PNum(EXPIRE_AFTER_SECONDS), now, ok)
    /\ log' = save_log(MODULES_COLLECTION, bg[c].key, ok)
    /\ collection' = MODULES_COLLECTION
    /\ ret' = [op |-> "save", key |-> bg[c].key, coll |-> MODULES_COLLECTION,
               get_expired |-> FALSE, value |-> PNone, at |-> now]
    /\ bg' = [bg EXCEPT ![c].state = IF ok THEN "saved" ELSE "failed"]
    /\ UNCHANGED <<now, pc, req, responses, result, error, backend>>

-----------------------------------------------------------------------------
(* The cache API called directly: load, save, delete on the store, and the  *)
(* clock.                                                                   *)

MaxTime == 2

CacheKeys == {"k1", "k2"}
CacheCollections == {"Modules", "TaskModel"}

\* payloads handed to save(): two mappings, a list, a string, a number, a boolean
Payloads ==
    { PDict([x |-> PNum(1)]), PDict([x |-> PNum(2)]),
      PList(<<PNum(1)>>), PStr("s"), PNum(7), PBool(TRUE) }

\* expire_after_seconds: None (never expires) or a number of seconds
TTLs == {PNone, PNum(1)}

\* the (collection, key, data, expire_after_seconds) save() is called with: every
\* payload and ttl under k1 of Modules, one mapping under k2 of Modules and one
\* under k1 of TaskModel
SaveArgs ==
    {<<"Modules", "k1", d, ttl>> : d \in Payloads, ttl \in TTLs}
    \cup {<<"Modules", "k2", PDict([x |-> PNum(2)]), PNum(1)>>,
          <<"TaskModel", "k1", PDict([x |-> PNum(1)]), PNone>>}

NoRet == [op |-> "none", key |-> "", coll |-> "", get_expired |-> FALSE,
          value |-> PNone, at |-> 0]

\* a load() that evicts the entry it finds expired
load_db_evict(db, c, key, get_expired, t) ==
    IF load_log(db, c, key, get_expired, t) = {<<"EXPIRED", c, key>>}
    THEN _delete(db, c, key, TRUE) ELSE db

\* the database a load() leaves behind: load() only reads
load_db(db, c, key, get_expired, t) == db

CacheLoad(key, c, get_expired) ==
    /\ ret' = [op |-> "load", key |-> key, coll |-> c, get_expired |-> get_expired,
               value |-> load(store, c, key, get_expired, now), at |-> now]
    /\ store' = load_db(store, c, key, get_expired, now)
    /\ log' = load_log(store, c, key, get_expired, now)
    /\ collection' = c
    /\ UNCHANGED now

CacheSave(key, c, data, ttl, ok) ==
    /\ store' = save(store, c, key, data, ttl, now, ok)
    /\ log' = save_log(c, key, ok)
    /\ collection' = c
    /\ ret' = [op |-> "save", key |-> key, coll |-> c, get_expired |-> FALSE,
               value |-> PNone, at |-> now]
    /\ UNCHANGED now

CacheDelete(key, c, ok) ==
    /\ store' = delete(store, c, key, ok)
    /\ log' = delete_log(store, c, key, ok)
    /\ collection' = c
    /\ ret' = [op |-> "delete", key |-> key, coll |-> c, get_expired |-> FALSE,
               value |-> PBool(_delete_result(store, c, key, ok)), at |-> now]
    /\ UNCHANGED now

\* time passes: d seconds, up to limit
Tick(d, limit) ==
    /\ now + d <= limit
    /\ now' = now + d
    /\ UNCHANGED <<store, collection, log, ret>>

InitCache ==
    /\ store = [c \in CacheCollections |-> <<>>]
    /\ collection = "unset"
    /\ now = 0
    /\ log = {}
    /\ ret = NoRet
    /\ pc = [c \in Callers |-> "idle"]
    /\ req = [c \in Callers |-> NoReq]
    /\ responses = [c \in Callers |-> <<>>]
    /\ result = [c \in Callers |-> None]
    /\ error = [c \in Callers |-> "none"]
    /\ backend = [c \in Callers |-> 0]
    /\ bg = [c \in Callers |-> NoThread]

NextCache ==
    \/ \E k \in CacheKeys, c \in CacheCollections, g \in BOOLEAN :
           CacheLoad(k, c, g) /\ UNCHANGED sow_vars
    \/ \E a \in SaveArgs, ok \in BOOLEAN :
           CacheSave(a[2], a[1], a[3], a[4], ok) /\ UNCHANGED sow_vars
    \/ \E k \in CacheKeys, c \in CacheCollections, ok \in BOOLEAN :
           CacheDelete(k, c, ok) /\ UNCHANGED sow_vars
    \/ Tick(1, MaxTime) /\ UNCHANGED sow_vars

SpecCache == InitCache /\ [][NextCache]_vars

-----------------------------------------------------------------------------
(* The inputs of the pipeline: texts, artifacts and the completions the      *)
(* backend can answer with.                                                  *)

\* the clock of Spec moves by a second or by the ttl of a pipeline entry, and reads
\* at most MaxSkew seconds past 0 or past the ttl
MaxSkew == 1

\* a plan with one task per module; mods[i] lists the hours of the categories of
\* module i's task
Plan(name, mods) ==
    [project_name |-> name,
     modules |-> [i \in DOMAIN mods |->
        [module |-> "module", short_name |-> "m",
         tasks |-> <<[task |-> "task", description |-> "what to implement",
                      categories |-> [j \in DOMAIN mods[i] |->
                          [category |-> "Backend", hours |-> PNum(mods[i][j]),
                           subtask |-> "subtask", short_name |-> "s"]],
                      short_name |-> "t"]>>]]]

PlanA == Plan("A", << <<4>> >>)
PlanB == Plan("B", << <<1>>, <<1>> >>)
PlanC == Plan("C", << <<2, 3>> >>)
PlanD == Plan("D", << <<4>>, <<1>> >>)

\* the completion that is the YAML text of value doc
Yaml(doc) == [fence |-> "none", doc |-> doc]

\* completions that parse into an artifact with numeric hours
GoodCompletions ==
    { Yaml(to_dict(PlanA)), Yaml(to_dict(PlanB)), Yaml(to_dict(PlanC)),
      Yaml(to_dict(PlanD)), [fence |-> "lang", doc |-> to_dict(PlanB)] }

\* a completion that is no YAML, one inside a fence that names no language, one that
\* is a sentence, and one whose hours are negative: from_yaml raises on each
BadCompletions ==
    { Yaml(YamlError), [fence |-> "bare", doc |-> to_dict(PlanC)],
      Yaml(PStr("Sorry, I cannot help with that.")),
      Yaml(to_dict(Plan("N", << <<0 - 1>> >>))) }

\* a completion that leaves the tasks out: it parses, the hours take the str default
NoHoursCompletion ==
    Yaml(PDict([project_name |-> PStr("E"),
                modules |-> PList(<<PDict([module |-> PStr("module")])>>)]))

Completions == GoodCompletions \cup BadCompletions \cup {NoHoursCompletion}

\* call_openai(n): up to n completions
Responses(n, comps) == UNION {[1..k -> comps] : k \in 0..n}

\* a record left under sowA's fingerprint by an earlier version of the schema
LegacyDoc ==
    (KEY_FIELD :> hash_uuid("sowA"))
    @@ [timestamp |-> isoformat(0), data |-> PDict([project_name |-> PNum(1)]),
        expires_at |-> PNone]

\* a record a successful from_sow("sowA") left at time 0: PlanB, expiring after the
\* default ttl
CachedDoc ==
    (KEY_FIELD :> hash_uuid("sowA"))
    @@ [timestamp |-> isoformat(0), data |-> to_dict(PlanB),
        expires_at |-> isoformat(EXPIRE_AFTER_SECONDS)]

InitSow ==
    /\ collection = "unset"
    /\ now = 0
    /\ log = {}
    /\ ret = NoRet
    /\ pc = [c \in Callers |-> "idle"]
    /\ req = [c \in Callers |-> NoReq]
    /\ responses = [c \in Callers |-> <<>>]
    /\ result = [c \in Callers |-> None]
    /\ error = [c \in Callers |-> "none"]
    /\ backend = [c \in Callers |-> 0]
    /\ bg = [c \in Callers |-> NoThread]

(* Spec: two requests, each one call of from_sow, running concurrently with  *)
(* their background threads and the clock.                                   *)

Init ==
    /\ InitSow
    /\ \E s \in {<<>>, <<LegacyDoc>>, <<CachedDoc>>} : store = [c \in CacheCollections |->
                                                 IF c = MODULES_COLLECTION THEN s ELSE <<>>]

Requests == [sow : {"sowA", "sowB"}, best_of : {1}, regenerate : BOOLEAN]

SpecCompletions == {Yaml(to_dict(PlanA)), Yaml(to_dict(PlanC)), Yaml(YamlError)}

Next ==
    \/ \E c \in Callers, r \in Requests : FromSowStart(c, r)
    \/ \E c \in Callers, resps \in Responses(1, SpecCompletions) : FromSowGenerate(c, resps)
    \/ \E c \in Callers : FromSowBackendError(c)
    \/ \E c \in Callers : FromSowFinish(c)
    \/ \E c \in Callers, ok \in BOOLEAN : BackgroundSave(c, ok)
    \/ \E d \in {1, EXPIRE_AFTER_SECONDS} :
           /\ (now % EXPIRE_AFTER_SECONDS) + (d % EXPIRE_AFTER_SECONDS) <= MaxSkew
           /\ Tick(d, EXPIRE_AFTER_SECONDS + MaxSkew)
           /\ UNCHANGED sow_vars

Spec == Init /\ [][Next]_vars

(* SpecRank: one request with the default best_of and every kind of          *)
(* completion.                                                               *)

InitRank ==
    /\ InitSow
    /\ store = [c \in CacheCollections |-> <<>>]

RankRequests == [sow : {"sowA"}, best_of : {BEST_OF}, regenerate : BOOLEAN]

NextRank ==
    \/ \E r \in RankRequests : FromSowStart(1, r)
    \/ \E resps \in Responses(BEST_OF, Completions) : FromSowGenerate(1, resps)
    \/ FromSowBackendError(1)
    \/ FromSowFinish(1)
    \/ \E ok \in BOOLEAN : BackgroundSave(1, ok)

SpecRank == InitRank /\ [][NextRank]_vars

(* SpecDrift: one request whose completions may spell the top-level field   *)
(* names differently from the schema.                                        *)

\* a completion with the plan of PlanB under the keys "Project Name" and "Modules"
DriftCompletion ==
    Yaml(PDict(("Project Name" :> PStr("D")) @@ ("Modules" :> to_dict(PlanB).v["modules"])))

DriftCompletions ==
    {Yaml(to_dict(PlanA)), Yaml(to_dict(PlanC)), Yaml(to_dict(PlanD)), DriftCompletion}

\* fuzzywuzzy's full_process: lower case, every character that is no letter or
\* digit becomes a blank
full_process(s) ==
    CASE s \in {"project_name", "Project Name"} -> "project name"
      [] s \in {"modules", "Modules"} -> "modules"

\* the score of extractOne for names that are equal after full_process, and
\* for names that are not
WRatio == [p \in model_fields \X {"project_name", "modules", "Project Name", "Modules"} |->
               IF full_process(p[1]) = full_process(p[2]) THEN 100 ELSE 30]

\* from_yaml(text, fuzzy=True): [ok, obj, error]
from_yaml_fuzzy(text) ==
    CHOOSE r \in
        { IF data.t # "dict" THEN from_dict(data)
          ELSE from_dict_fuzzy(data, [t |-> "float", v |-> 0],
                               [f \in model_fields |->
                                    CHOOSE m \in find_best_match(f, DOMAIN data.v, WRatio) : TRUE]) :
          data \in {safe_load(clean_yaml_str(text))} } : TRUE

DriftRequests == [sow : {"sowA"}, best_of : {1, 2}, regenerate : BOOLEAN]

NextDrift ==
    \/ \E r \in DriftRequests : FromSowStart(1, r)
    \/ \E resps \in Responses(2, DriftCompletions) : FromSowGenerate(1, resps)
    \/ FromSowBackendError(1)
    \/ FromSowFinish(1)
    \/ \E ok \in BOOLEAN : BackgroundSave(1, ok)

SpecDrift == InitRank /\ [][NextDrift]_vars

(* SpecIndep: two requests for different texts run concurrently with their  *)
(* background threads, while the cache API is called directly under other    *)
(* keys of the same collection.                                              *)

\* caller 1 asks for sowA, caller 2 for sowB
IndepRequests(c) ==
    [sow : {IF c = 1 THEN "sowA" ELSE "sowB"}, best_of : {1}, regenerate : BOOLEAN]

IndepCompletions == {Yaml(to_dict(PlanA)), Yaml(to_dict(PlanC))}

NextIndep ==
    \/ \E c \in Callers : \E r \in IndepRequests(c) : FromSowStart(c, r)
    \/ \E c \in Callers, resps \in Responses(1, IndepCompletions) : FromSowGenerate(c, resps)
    \/ \E c \in Callers : FromSowBackendError(c)
    \/ \E c \in Callers : FromSowFinish(c)
    \/ \E c \in Callers, ok \in BOOLEAN : BackgroundSave(c, ok)
    \/ \E k \in CacheKeys, ok \in BOOLEAN :
           CacheSave(k, MODULES_COLLECTION, PDict([x |-> PNum(1)]), PNone, ok)
           /\ UNCHANGED sow_vars
    \/ \E k \in CacheKeys, ok \in BOOLEAN :
           CacheDelete(k, MODULES_COLLECTION, ok) /\ UNCHANGED sow_vars

SpecIndep == Init /\ [][NextIndep]_vars

(* SpecExpired: two requests for the text whose plan the cache holds since   *)
(* time 0, while the clock passes the plan's expiry.                         *)

InitExpired ==
    /\ InitSow
    /\ store = [c \in CacheCollections |-> IF c = MODULES_COLLECTION THEN <<CachedDoc>> ELSE <<>>]

ExpiredRequests == [sow : {"sowA"}, best_of : {1}, regenerate : BOOLEAN]

NextExpired ==
    \/ \E c \in Callers, r \in ExpiredRequests : FromSowStart(c, r)
    \/ \E c \in Callers, resps \in Responses(1, SpecCompletions) : FromSowGenerate(c, resps)
    \/ \E c \in Callers : FromSowBackendError(c)
    \/ \E c \in Callers : FromSowFinish(c)
    \/ \E c \in Callers, ok \in BOOLEAN : BackgroundSave(c, ok)
    \/ \E d \in {1, EXPIRE_AFTER_SECONDS} :
           /\ (now % EXPIRE_AFTER_SECONDS) + (d % EXPIRE_AFTER_SECONDS) <= MaxSkew
           /\ Tick(d, EXPIRE_AFTER_SECONDS + MaxSkew)
           /\ UNCHANGED sow_vars

SpecExpired == InitExpired /\ [][NextExpired]_vars

(* SpecRace: two requests for the same text whose background writes reach   *)
(* the server concurrently, and deletes of the entry.  The code creates no   *)
(* unique index on the key field, and without one the server runs an         *)
(* update_one(..., upsert=True) that matches no document in two steps: the   *)
(* query, which finds nothing, and the insert; an update of a document that  *)
(* the query finds is one step.                                              *)

\* the insert of an upsert whose query matched no document
upsert_insert_phase(db, c, value, key, t) ==
    [db EXCEPT ![c] = Append(@, (KEY_FIELD :> key) @@ _add_timestamp(value, t))]

\* the query of the upsert of caller c's background save finds no document
UpsertQuery(c) ==
    /\ bg[c].state = "pending"
    /\ Matching(store, MODULES_COLLECTION, bg[c].key) = {}
    /\ bg' = [bg EXCEPT ![c].state = "inserting"]
    /\ UNCHANGED <<store, collection, now, log, ret, pc, req, responses, result, error, backend>>

\* the insert that follows it
UpsertInsert(c) ==
    /\ bg[c].state = "inserting"
    /\ store' = upsert_insert_phase(store, MODULES_COLLECTION,
                                    [data |-> bg[c].data,
                                     expires_at |-> expires_at_of(PNum(EXPIRE_AFTER_SECONDS), now)],
                                    bg[c].key, now)
    /\ log' = save_log(MODULES_COLLECTION, bg[c].key, TRUE)
    /\ collection' = MODULES_COLLECTION
    /\ ret' = [op |-> "save", key |-> bg[c].key, coll |-> MODULES_COLLECTION,
               get_expired |-> FALSE, value |-> PNone, at |-> now]
    /\ bg' = [bg EXCEPT ![c].state = "saved"]
    /\ UNCHANGED <<now, pc, req, responses, result, error, backend>>

NextRace ==
    \/ \E c \in Callers, r \in ExpiredRequests : FromSowStart(c, r)
    \/ \E c \in Callers, resps \in Responses(1, IndepCompletions) : FromSowGenerate(c, resps)
    \/ \E c \in Callers : FromSowBackendError(c)
    \/ \E c \in Callers : FromSowFinish(c)
    \/ \E c \in Callers, ok \in BOOLEAN :
           /\ ~ok \/ Matching(store, MODULES_COLLECTION, bg[c].key) # {}
           /\ BackgroundSave(c, ok)
    \/ \E c \in Callers : UpsertQuery(c)
    \/ \E c \in Callers : UpsertInsert(c)
    \/ \E ok \in BOOLEAN :
           CacheDelete(hash_uuid("sowA"), MODULES_COLLECTION, ok) /\ UNCHANGED sow_vars

SpecRace == InitRank /\ [][NextRace]_vars

(* SpecCodec: an artifact is encoded as JSON or YAML and decoded again.       *)

\* an artifact with one subtask
CodecPlan(name, sub, h) ==
    [project_name |-> name,
     modules |-> <<[module |-> "module", short_name |-> "m",
                    tasks |-> <<[task |-> "task", description |-> "what to implement",
                                 categories |-> <<[category |-> "Backend", hours |-> h,
                                                   subtask |-> sub, short_name |-> "s"]>>,
                                 short_name |-> "t"]>>]>>]

\* hours up to MaxHours, and the str default that an artifact built without hours has
MaxHours == 2
CodecHours == {PNum(n) : n \in 0..MaxHours} \cup {HOURS_DEFAULT}

CodecArtifacts ==
    {CodecPlan(name, sub, h) : name \in DOMAIN Spelling, sub \in DOMAIN Spelling,
                               h \in CodecHours}

InitCodec ==
    /\ collection = "unset"
    /\ now = 0
    /\ log = {}
    /\ ret = NoRet
    /\ pc = [c \in Callers |-> "idle"]
    /\ req = [c \in Callers |-> NoReq]
    /\ responses = [c \in Callers |-> <<>>]
    /\ \E a \in CodecArtifacts :
           result = [c \in Callers |-> [ok |-> TRUE, obj |-> a, cached |-> FALSE]]
    /\ error = [c \in Callers |-> "none"]
    /\ backend = [c \in Callers |-> 0]
    /\ bg = [c \in Callers |-> NoThread]
    /\ store = [c \in CacheCollections |-> <<>>]

\* text = a.to_json()
ToJson(c) ==
    /\ pc[c] = "idle"
    /\ responses' = [responses EXCEPT ![c] = <<to_json(result[c].obj)>>]
    /\ pc' = [pc EXCEPT ![c] = "json"]
    /\ UNCHANGED <<store, collection, now, log, ret, req, result, error, backend, bg>>

\* text = a.to_yaml()
ToYaml(c) ==
    /\ pc[c] = "idle"
    /\ responses' = [responses EXCEPT ![c] = <<to_yaml(result[c].obj)>>]
    /\ pc' = [pc EXCEPT ![c] = "yaml"]
    /\ UNCHANGED <<store, collection, now, log, ret, req, result, error, backend, bg>>

\* Modules.from_json(text)
FromJson(c) ==
    /\ pc[c] = "json"
    /\ \E r \in {from_json(responses[c][1])} :
           /\ ret' = [op |-> "from_json", key |-> "", coll |-> "", get_expired |-> FALSE,
                      value |-> r, at |-> now]
           /\ error' = [error EXCEPT ![c] = r.error]
    /\ pc' = [pc EXCEPT ![c] = "decoded"]
    /\ UNCHANGED <<store, collection, now, log, req, responses, result, backend, bg>>

\* Modules.from_yaml(text)
FromYaml(c) ==
    /\ pc[c] = "yaml"
    /\ \E r \in {from_yaml(responses[c][1])} :
           /\ ret' = [op |-> "from_yaml", key |-> "", coll |-> "", get_expired |-> FALSE,
                      value |-> r, at |-> now]
           /\ error' = [error EXCEPT ![c] = r.error]
    /\ pc' = [pc EXCEPT ![c] = "decoded"]
    /\ UNCHANGED <<store, collection, now, log, req, responses, result, backend, bg>>

NextCodec == ToJson(1) \/ ToYaml(1) \/ FromJson(1) \/ FromYaml(1)

SpecCodec == InitCodec /\ [][NextCodec]_vars

(* SpecFuzzy: from_dict with fuzzy matching on a dictionary, a cutoff and a   *)
(* table of similarity scores.                                               *)

FuzzyKeys == {"project_name", "name", "mods"}

\* the value each incoming key carries
FuzzyValue(k) == IF k = "mods" THEN PList(<<>>) ELSE PStr(k)

FuzzyData == {PDict([k \in ks |-> FuzzyValue(k)]) : ks \in SUBSET FuzzyKeys}

ScoreValues == {0, 50, 100}

\* a name scores 100 against itself
FuzzyScores ==
    {sc \in [model_fields \X FuzzyKeys -> ScoreValues] :
        \A f \in model_fields : f \in FuzzyKeys => sc[<<f, f>>] = 100}

\* 0.0, 0.5, 1.0, 80.0 and the ints 1 and 80
FuzzyCutoffs ==
    {[t |-> "float", v |-> 0], [t |-> "float", v |-> 50], [t |-> "float", v |-> 100],
     [t |-> "float", v |-> 8000], [t |-> "int", v |-> 100], [t |-> "int", v |-> 8000]}

InitFuzzy ==
    /\ collection = "unset"
    /\ now = 0
    /\ log = {}
    /\ ret = NoRet
    /\ pc = [c \in Callers |-> "idle"]
    /\ \E d \in FuzzyData, cut \in FuzzyCutoffs, sc \in FuzzyScores :
           req = [c \in Callers |-> [data |-> d, cutoff |-> cut, score |-> sc]]
    /\ responses = [c \in Callers |-> <<>>]
    /\ result = [c \in Callers |-> None]
    /\ error = [c \in Callers |-> "none"]
    /\ backend = [c \in Callers |-> 0]
    /\ bg = [c \in Callers |-> NoThread]
    /\ store = [c \in CacheCollections |-> <<>>]

\* Modules.from_dict(data, fuzzy=True, cutoff)
FromDictFuzzy(c) ==
    /\ pc[c] = "idle"
    /\ \E match \in [model_fields -> [text : FuzzyKeys \cup {NoMatch.text}, score : ScoreValues]] :
           /\ \A f \in model_fields :
                  match[f] \in find_best_match(f, DOMAIN req[c].data.v, req[c].score)
           /\ \E r \in {from_dict_fuzzy(req[c].data, req[c].cutoff, match)} :
                  /\ ret' = [op |-> "from_dict", key |-> "", coll |-> "",
                             get_expired |-> FALSE, value |-> r, at |-> now,
                             cols |-> field_col_map(match, req[c].cutoff)]
                  /\ error' = [error EXCEPT ![c] = r.error]
    /\ pc' = [pc EXCEPT ![c] = "decoded"]
    /\ UNCHANGED <<store, collection, now, log, req, responses, result, backend, bg>>

NextFuzzy == FromDictFuzzy(1)

SpecFuzzy == InitFuzzy /\ [][NextFuzzy]_vars

(* SpecTree: an artifact tree whose leaf hours are reassigned and whose       *)
(* aggregates are read.                                                      *)

\* leaf hours range over 0..MaxLeafHours; a tree has 1..MaxLeaves leaf categories
MaxLeafHours == 1
MaxLeaves == 4

MaxOf(S) == CHOOSE x \in S : \A y \in S : y <= x

(* A tree is laid out by the hours of its leaves from left to right and, for *)
(* each gap between two neighbouring leaves, whether the next leaf stays in  *)
(* the same task ("none"), starts a new task ("task") or starts a new        *)
(* module ("module").                                                        *)

\* the last gap before leaf p of one of the kinds, 0 if there is none
LastCut(cut, p, kinds) == MaxOf({0} \cup {q \in 1..(p - 1) : cut[q] \in kinds})

ModuleOf(cut, p) == 1 + Cardinality({q \in 1..(p - 1) : cut[q] = "module"})
TaskOf(cut, p) ==
    1 + Cardinality({q \in (LastCut(cut, p, {"module"}) + 1)..(p - 1) : cut[q] = "task"})
CategoryOf(cut, p) == p - LastCut(cut, p, {"task", "module"})

\* the nested sequences of leaf hours: shape[i][j][k]
ShapeOf(hs, cut) ==
    LET n == Len(hs)
        At(i, j, k) == CHOOSE p \in 1..n :
                           <<ModuleOf(cut, p), TaskOf(cut, p), CategoryOf(cut, p)>> = <<i, j, k>>
    IN  [i \in 1..ModuleOf(cut, n) |->
            [j \in 1..MaxOf({TaskOf(cut, p) : p \in {q \in 1..n : ModuleOf(cut, q) = i}}) |->
                [k \in 1..MaxOf({CategoryOf(cut, p) :
                                    p \in {q \in 1..n : ModuleOf(cut, q) = i
                                                         /\ TaskOf(cut, q) = j}}) |->
                    hs[At(i, j, k)]]]]

TreeShapes ==
    UNION {{ShapeOf(hs, cut) : hs \in [1..n -> 0..MaxLeafHours],
                               cut \in [1..(n - 1) -> {"none", "task", "module"}]} :
           n \in 1..MaxLeaves}

\* the artifact whose module i has the tasks shape[i], task j of it the leaf hours
\* shape[i][j]
Tree(shape) ==
    [project_name |-> "P",
     modules |-> [i \in DOMAIN shape |->
        [module |-> "module", short_name |-> "m",
         tasks |-> [j \in DOMAIN shape[i] |->
            [task |-> "task", description |-> "what to implement",
             categories |-> [k \in DOMAIN shape[i][j] |->
                 [category |-> "Backend", hours |-> PNum(shape[i][j][k]),
                  subtask |-> "subtask", short_name |-> "s"]],
             short_name |-> "t"]]]]]

InitTree ==
    /\ collection = "unset"
    /\ now = 0
    /\ log = {}
    /\ ret = NoRet
    /\ pc = [c \in Callers |-> "idle"]
    /\ req = [c \in Callers |-> NoReq]
    /\ responses = [c \in Callers |-> <<>>]
    /\ \E shape \in TreeShapes :
           result = [c \in Callers |-> IF c = 1
                                        THEN [ok |-> TRUE, obj |-> Tree(shape), cached |-> FALSE]
                                        ELSE None]
    /\ error = [c \in Callers |-> "none"]
    /\ backend = [c \in Callers |-> 0]
    /\ bg = [c \in Callers |-> NoThread]
    /\ store = [c \in CacheCollections |-> <<>>]

\* obj.modules[i].tasks[j].categories[k].hours = h
SetLeafHours(c, i, j, k, h) ==
    /\ i \in DOMAIN result[c].obj.modules
    /\ j \in DOMAIN result[c].obj.modules[i].tasks
    /\ k \in DOMAIN result[c].obj.modules[i].tasks[j].categories
    /\ result' = [result EXCEPT ![c].obj.modules[i].tasks[j].categories[k].hours = PNum(h)]
    /\ ret' = NoRet
    /\ UNCHANGED <<store, collection, now, log, pc, req, responses, error, backend, bg>>

\* the properties obj.hours and obj.subtasks are read
ReadAggregates(c) ==
    /\ ret' = [op |-> "aggregates", key |-> "", coll |-> "", get_expired |-> FALSE,
               value |-> [hours |-> hours(result[c].obj),
                          subtasks |-> subtasks(result[c].obj)],
               at |-> now]
    /\ UNCHANGED <<store, collection, now, log, pc, req, responses, result, error, backend, bg>>

NextTree ==
    \/ \E i, j, k \in 1..MaxLeaves, h \in 0..MaxLeafHours : SetLeafHours(1, i, j, k, h)
    \/ ReadAggregates(1)

SpecTree == InitTree /\ [][NextTree]_vars

(* SpecKey: the fingerprint of from_sow, line 104.  uuid3 keeps 122 bits of *)
(* an MD5 digest of the namespace bytes followed by the bytes of the text;   *)
(* the texts have no bound on their length.  The model keeps that relation   *)
(* at a small width: the digest has KeyBits bits and the texts are the       *)
(* non-empty byte strings over two letters of length up to KeyBits, so that, *)
(* as in the code, there are more texts than keys.                           *)

KeyBits == 2

\* the leading bytes of uuid.NAMESPACE_DNS (6ba7b810-...)
NAMESPACE_DNS == <<107, 167>>

\* sow.encode("utf-8") of the modelled texts: strings over the letters a and b
KeyTexts == UNION {[1..n -> {97, 98}] : n \in 1..KeyBits}

\* the digest of a byte string, folded byte by byte, KeyBits wide
RECURSIVE md5(_)
md5(bytes) ==
    IF bytes = <<>>
    THEN 1
    ELSE (md5(SubSeq(bytes, 1, Len(bytes) - 1)) * 33 + bytes[Len(bytes)]) % (2 ^ KeyBits)

\* uuid.uuid3(namespace, name): the digest of namespace.bytes + name bytes
uuid3(namespace, name) == md5(namespace \o name)

\* UUID.hex: the digits of the number, most significant first
RECURSIVE hex(_)
hex(n) ==
    LET digit(d) == CASE d = 0 -> "0" [] d = 1 -> "1" [] d = 2 -> "2" [] d = 3 -> "3"
                      [] d = 4 -> "4" [] d = 5 -> "5" [] d = 6 -> "6" [] d = 7 -> "7"
                      [] d = 8 -> "8" [] d = 9 -> "9" [] d = 10 -> "a" [] d = 11 -> "b"
                      [] d = 12 -> "c" [] d = 13 -> "d" [] d = 14 -> "e" [] d = 15 -> "f"
    IN  IF n < 16 THEN digit(n) ELSE hex(n \div 16) \o digit(n % 16)

\* a fingerprint that also hashes the way the call was made
sow_hash_of_call(r) == hex(uuid3(NAMESPACE_DNS, r.sow \o <<r.best_of>>))

\* from_sow, line 104: sow_hash = hash_uuid(sow).hex
sow_hash(r) == hex(uuid3(NAMESPACE_DNS, r.sow))

KeyRequests == [sow : KeyTexts, best_of : {1, BEST_OF}, regenerate : BOOLEAN]

InitKey ==
    /\ collection = "unset"
    /\ now = 0
    /\ log = {}
    /\ ret = NoRet
    /\ pc = [c \in Callers |-> "idle"]
    /\ req = [c \in Callers |-> NoReq]
    /\ responses = [c \in Callers |-> <<>>]
    /\ result = [c \in Callers |-> None]
    /\ error = [c \in Callers |-> "none"]
    /\ backend = [c \in Callers |-> 0]
    /\ bg = [c \in Callers |-> NoThread]
    /\ store = [c \in CacheCollections |-> <<>>]

\* from_sow(r.sow, r.best_of, r.regenerate) up to line 104, called at time now
FromSowFingerprint(c, r) ==
    /\ req' = [req EXCEPT ![c] = r]
    /\ ret' = [op |-> "fingerprint", key |-> sow_hash(r), coll |-> "",
               get_expired |-> FALSE, value |-> PNone, at |-> now]
    /\ UNCHANGED <<store, collection, now, log, pc, responses, result, error, backend, bg>>

NextKey ==
    \/ \E r \in KeyRequests : FromSowFingerprint(1, r)
    \/ Tick(1, MaxTime) /\ UNCHANGED sow_vars

SpecKey == InitKey /\ [][NextKey]_vars

(* SpecRead: from_sow over a cache whose record under the fingerprint may be *)
(* unusable, and a store whose reads may fail.                               *)

\* a wrapper whose expires_at is a str that is not an ISO timestamp
BadExpiryDoc ==
    (KEY_FIELD :> hash_uuid("sowA"))
    @@ [timestamp |-> isoformat(0), data |-> to_dict(PlanB), expires_at |-> NotIso]

\* a wrapper whose expires_at is a number
NumExpiryDoc ==
    (KEY_FIELD :> hash_uuid("sowA"))
    @@ [timestamp |-> isoformat(0), data |-> to_dict(PlanB), expires_at |-> PNum(5)]

\* a wrapper whose data is not a dict
NoDataDoc ==
    (KEY_FIELD :> hash_uuid("sowA"))
    @@ [timestamp |-> isoformat(0), data |-> PStr("x"), expires_at |-> PNone]

InitRead ==
    /\ InitSow
    /\ \E s \in {<<>>, <<LegacyDoc>>, <<CachedDoc>>, <<BadExpiryDoc>>, <<NumExpiryDoc>>,
                 <<NoDataDoc>>} :
           store = [c \in CacheCollections |-> IF c = MODULES_COLLECTION THEN s ELSE <<>>]

NextRead ==
    \/ \E c \in Callers, r \in Requests : FromSowStart(c, r)
    \/ \E c \in Callers, r \in Requests, readok \in BOOLEAN : FromSowCacheError(c, r, readok)
    \/ \E c \in Callers, resps \in Responses(1, SpecCompletions) : FromSowGenerate(c, resps)
    \/ \E c \in Callers : FromSowBackendError(c)
    \/ \E c \in Callers : FromSowFinish(c)
    \/ \E c \in Callers, ok \in BOOLEAN : BackgroundSave(c, ok)

SpecRead == InitRead /\ [][NextRead]_vars

-----------------------------------------------------------------------------
(* Properties of the cache API (SpecCache) *)

HasEntry(c, key) == Matching(store, c, key) # {}
Entry(c, key) == _get(store, c, key)
\* now is not later than the entry's expires_at, or the entry never expires
Unexpired(doc, t) == doc["expires_at"].t = "none" \/ t <= fromisoformat(doc["expires_at"])
SameValue(a, b) == a.t = b.t /\ a.v = b.v
JustReturned(op) == ret.op = op /\ ret.at = now

SavedAndLoadable(db, c, key, data, ttl, t) ==
    /\ Cardinality(Matching(db, c, key)) = 1
    /\ LET doc == _get(db, c, key)
       IN  /\ SameValue(doc["data"], data)
           /\ IF ttl.t = "none" THEN doc["expires_at"].t = "none"
              ELSE doc["expires_at"].t = "str" /\ fromisoformat(doc["expires_at"]) = t + ttl.v
    /\ \A u \in t..(MaxTime + 1) :
           (ttl.t = "none" \/ u <= t + ttl.v) => SameValue(load(db, c, key, FALSE, u), data)

C8_LazyExpiryNoEviction ==
    [][(now' # now \/ ret'.op = "load")
          => /\ store' = store
             /\ \A c \in CacheCollections, k \in CacheKeys :
                    load(store', c, k, TRUE, now') = load(store, c, k, TRUE, now)]_vars

\* a load found the entry expired and returned absent; the entry is still stored
C8_Witness ==
    /\ JustReturned("load") /\ ~ret.get_expired /\ ret.value.t = "none"
    /\ HasEntry(ret.coll, ret.key)
    /\ Entry(ret.coll, ret.key)["data"].t = "dict"
    /\ ~Unexpired(Entry(ret.coll, ret.key), now)
    /\ log = {<<"EXPIRED", ret.coll, ret.key>>}

-----------------------------------------------------------------------------
(* Properties of the pipeline (Spec, SpecRank) *)

\* caller c's call of from_sow starts in this step, with regenerate=False
StartsPlain(c) == pc[c] = "idle" /\ pc'[c] # "idle" /\ ~req'[c].regenerate

\* the fingerprint of caller c's text
KeyOf(c) == hash_uuid(req[c].sow)

\* db holds under the fingerprint of sow an entry whose payload validates as an
\* artifact and that has not expired at time t
ValidEntry(db, sow, t) ==
    LET doc == _get(db, MODULES_COLLECTION, hash_uuid(sow))
    IN  /\ Matching(db, MODULES_COLLECTION, hash_uuid(sow)) # {}
        /\ doc["data"].t = "dict"
        /\ Modules_validate(doc["data"]).ok
        /\ Unexpired(doc, t)

\* the second call c2 returned the artifact of the first call c1 from the cache
ReturnsCachedOf(c2, c1) ==
    /\ pc'[c2] = "done"
    /\ result'[c2].ok /\ result'[c2].cached
    /\ result'[c2].obj = result[c1].obj
    /\ backend'[c2] = 0

\* C1 as stated: when from_sow(text) has returned an artifact to a call with
\* regenerate=False, a second call with the same text and regenerate=False returns
\* that artifact from the cache and calls no backend.
C1_SecondCallCached_Always ==
    [][\A c1, c2 \in Callers :
          (/\ c1 # c2 /\ pc[c1] = "done" /\ ~req[c1].regenerate
           /\ StartsPlain(c2) /\ req'[c2].sow = req[c1].sow)
              => ReturnsCachedOf(c2, c1)]_vars

\* C1 amended: when the first call missed the cache and its background cache write
\* has completed successfully, a second call with the same text and regenerate=False
\* that starts no later than the default ttl (90 days) after that write returns the
\* artifact the first call cached and calls no backend.
C1_SecondCallCached ==
    [][\A c1, c2 \in Callers :
          (/\ c1 # c2 /\ pc[c1] = "done" /\ ~req[c1].regenerate
           /\ StartsPlain(c2) /\ req'[c2].sow = req[c1].sow
           /\ bg[c1].state = "saved"
           /\ now <= fromisoformat(Entry(MODULES_COLLECTION, KeyOf(c1))[TIMESTAMP_FIELD])
                        + EXPIRE_AFTER_SECONDS)
              => ReturnsCachedOf(c2, c1)]_vars

\* the second call returned, a second after the first call's write, what the first
\* call generated and cached
C1_Witness ==
    \E c1, c2 \in Callers :
        /\ c1 # c2 /\ req[c1].sow = req[c2].sow
        /\ ~req[c1].regenerate /\ ~req[c2].regenerate
        /\ pc[c1] = "done" /\ ~result[c1].cached /\ backend[c1] = 1
        /\ bg[c1].state = "saved"
        /\ pc[c2] = "done" /\ result[c2].cached /\ backend[c2] = 0
        /\ result[c2].obj = result[c1].obj
        /\ now = 1

\* C2: a call with regenerate=False that finds an unexpired, schema-valid entry under
\* the text's fingerprint returns the artifact of that entry in the same step, with
\* no backend call, no completions ranked, no background write and the store
\* unchanged; a call that returned from the cache never calls the backend later.
C2_CacheHitShortCircuit ==
    [][\A c \in Callers :
          /\ (StartsPlain(c) /\ ValidEntry(store, req'[c].sow, now))
                => /\ pc'[c] = "done"
                   /\ result'[c] =
                        [ok |-> TRUE, cached |-> TRUE,
                         obj |-> Modules_validate(
                             Entry(MODULES_COLLECTION, hash_uuid(req'[c].sow))["data"]).obj]
                   /\ store' = store /\ backend' = backend
                   /\ bg' = bg /\ responses' = responses
          /\ result'[c].cached
                => /\ backend'[c] = 0 /\ bg'[c] = NoThread /\ responses'[c] = <<>>
                   /\ pc'[c] = "done"]_vars

\* a call returned PlanB from the record that was in the store before it started
C2_Witness ==
    \E c \in Callers :
        /\ pc[c] = "done" /\ result[c].cached /\ backend[c] = 0
        /\ store[MODULES_COLLECTION] = <<CachedDoc>>
        /\ result[c].obj = Modules_validate(to_dict(PlanB)).obj
        /\ to_dict(result[c].obj) = CachedDoc["data"]

\* the positions of the completions that from_yaml turns into an artifact
Parseable(resps) == {i \in 1..Len(resps) : from_yaml(resps[i]).ok}

\* caller c's call missed the cache, got the backend's completions and has returned
MissedAndAnswered(c) ==
    /\ pc[c] \in {"done", "failed"}
    /\ backend[c] = 1 /\ error[c] # "BackendError"

\* x is a maximum of the parsed candidates of resps under (subtasks, hours)
MaximumOf(x, resps) ==
    /\ \E i \in Parseable(resps) : x = from_yaml(resps[i]).obj
    /\ \A i \in Parseable(resps) :
           LET y == from_yaml(resps[i]).obj
           IN  /\ subtasks(y) <= subtasks(x)
               /\ subtasks(y) = subtasks(x) => hours(y) <= hours(x)

\* C3 as stated: on a miss, when at least one completion parses into an artifact (with
\* numeric hours), the call returns the best-ranked parseable candidate and does not
\* fail, whatever the other completions are.
C3_PartialFailureTolerated ==
    \A c \in Callers :
        (/\ MissedAndAnswered(c)
         /\ Parseable(responses[c]) # {}
         /\ \A i \in Parseable(responses[c]) : ~hours_raises(from_yaml(responses[c][i]).obj))
            => /\ pc[c] = "done" /\ result[c].ok
               /\ MaximumOf(result[c].obj, responses[c])

\* C4: on a miss, when no completion parses (all unparseable, or none returned), the
\* call fails with an exception, returns no artifact, starts no background write, and
\* the store stays empty.
C4_TotalFailure ==
    \A c \in Callers :
        (MissedAndAnswered(c) /\ Parseable(responses[c]) = {})
            => /\ pc[c] = "failed" /\ error[c] # "none"
               /\ result[c] = None
               /\ bg[c] = NoThread
               /\ \A col \in CacheCollections : store[col] = <<>>
               /\ ret.op # "save"

\* the call failed on BEST_OF completions none of which parses
C4_Witness ==
    /\ pc[1] = "failed" /\ error[1] = "YAMLError"
    /\ Len(responses[1]) = BEST_OF
    /\ Parseable(responses[1]) = {}
    /\ responses[1][1] = Yaml(YamlError)
    /\ result[1] = None /\ bg[1] = NoThread

\* C5: the artifact a call generates is one of the parsed candidates, no candidate
\* has more subtasks, and none with the same number of subtasks has more hours.
C5_WinnerIsMaximum ==
    \A c \in Callers :
        (pc[c] = "done" /\ ~result[c].cached)
            => /\ Parseable(responses[c]) = 1..Len(responses[c])
               /\ MaximumOf(result[c].obj, responses[c])

\* candidates with (subtasks, hours) = (1, 4), (2, 2), (2, 5): the last one won
C5_Witness ==
    /\ pc[1] = "done" /\ ~result[1].cached
    /\ responses[1] = <<Yaml(to_dict(PlanA)), Yaml(to_dict(PlanB)), Yaml(to_dict(PlanC))>>
    /\ <<subtasks(PlanA), hours(PlanA)>> = <<1, 4>>
    /\ <<subtasks(PlanB), hours(PlanB)>> = <<2, 2>>
    /\ <<subtasks(PlanC), hours(PlanC)>> = <<2, 5>>
    /\ result[1].obj = PlanC

\* caller c's background write fails in this step
WriteFails(c) == bg[c].state = "pending" /\ bg'[c].state = "failed"

\* the adapter printed the failure, and the caller of c keeps the winner it was given
FailureReportedCallerUnaffected(c) ==
    /\ <<"Upsert failed", MODULES_COLLECTION, bg[c].key>> \in log'
    /\ pc[c] = "done" /\ pc'[c] = "done"
    /\ result[c].ok /\ ~result[c].cached /\ result'[c] = result[c]
    /\ error'[c] = "none"

\* d is the next call for the text of c, whose background write has failed
NextCallAfterFailedWrite(c, d) ==
    /\ d # c /\ bg[c].state = "failed"
    /\ StartsPlain(d) /\ req'[d].sow = req[c].sow

AllParsed(c) ==
    /\ responses[c] # <<>>
    /\ Parseable(responses[c]) = 1..Len(responses[c])
    /\ \A i \in Parseable(responses[c]) : ~hours_raises(from_yaml(responses[c][i]).obj)

\* callers c1 and c2 asked for the same text, both missed the cache and both were
\* answered with completions that parse
BothMissed(c1, c2) ==
    /\ c1 # c2 /\ req[c1].sow = req[c2].sow
    /\ MissedAndAnswered(c1) /\ MissedAndAnswered(c2)
    /\ AllParsed(c1) /\ AllParsed(c2)

\* the store holds exactly one record under key and its payload is data
OneRecord(db, key, data) ==
    /\ Cardinality(Matching(db, MODULES_COLLECTION, key)) = 1
    /\ _get(db, MODULES_COLLECTION, key)["data"] = data

RacedHarmlessly(c1, c2) ==
    /\ pc[c1] = "done" /\ pc[c2] = "done"
    /\ MaximumOf(result[c1].obj, responses[c1])
    /\ MaximumOf(result[c2].obj, responses[c2])
    /\ Modules_validate(to_dict(result[c1].obj)).ok
    /\ Modules_validate(to_dict(result[c2].obj)).ok
    /\ (bg[c1].state = "saved" /\ bg[c2].state = "saved")
          => \/ OneRecord(store, KeyOf(c1), to_dict(result[c1].obj))
             \/ OneRecord(store, KeyOf(c1), to_dict(result[c2].obj))

\* C10: when two calls for the same text both miss the cache, both return the winner
\* of their own completions; each successful background write leaves exactly one
\* record under the fingerprint holding that writer's winner (the last write wins),
\* and once both writes are done the record holds the whole winner of one of the two.
C10_ConcurrentWritesLastWins ==
    /\ [](\A c1, c2 \in Callers : BothMissed(c1, c2) => RacedHarmlessly(c1, c2))
    /\ [][\A c \in Callers :
              (bg[c].state = "pending" /\ bg'[c].state = "saved")
                  => OneRecord(store', KeyOf(c), to_dict(result[c].obj))]_vars

\* both calls started before either wrote, generated different plans, and both
\* writes are done: the one record holds the plan of the second writer, caller 1
C10_Witness ==
    /\ BothMissed(1, 2) /\ ~req[1].regenerate /\ ~req[2].regenerate
    /\ now = 0
    /\ bg[1].state = "saved" /\ bg[2].state = "saved"
    /\ result[1].obj = PlanA /\ result[2].obj = PlanC
    /\ OneRecord(store, KeyOf(1), to_dict(PlanA))
    /\ ret.op = "save"

-----------------------------------------------------------------------------
(* SpecDB: two threads of one process call the cache API.  getDB is the one  *)
(* MongoDB object of the process: getDB(c) stores the collection in the      *)
(* object and returns the object, and the method called on it afterwards     *)
(* uses the collection the object holds by then.  pc[t] is "selected"        *)
(* between the two, and req[t] is the operation thread t was asked for.      *)

DbOps ==
    [op : {"load", "save"}, coll : CacheCollections, key : {"k1"},
     data : {PDict([x |-> PNum(1)])}, ttl : {PNone}]
    \cup [op : {"save"}, coll : {"TaskModel"}, key : {"k1"},
          data : {PDict([x |-> PNum(2)])}, ttl : {PNone}]

\* MongoDB.__call__: self.collection = self.db.get_collection(name=collection)
GetDB(t, o) ==
    /\ pc[t] = "idle"
    /\ req' = [req EXCEPT ![t] = o]
    /\ collection' = o.coll
    /\ pc' = [pc EXCEPT ![t] = "selected"]
    /\ UNCHANGED <<store, now, log, ret, responses, result, error, backend, bg>>

\* the rest of load() or save(): .get(key) or .upsert(key, value) on self.collection
DbRun(t, ok) ==
    /\ pc[t] = "selected"
    /\ pc' = [pc EXCEPT ![t] = "idle"]
    /\ IF req[t].op = "load"
       THEN CacheLoad(req[t].key, collection, FALSE)
       ELSE CacheSave(req[t].key, collection, req[t].data, req[t].ttl, ok)
    /\ UNCHANGED <<req, responses, result, error, backend, bg>>

NextDB ==
    \/ \E t \in Callers, o \in DbOps : GetDB(t, o)
    \/ \E t \in Callers, ok \in BOOLEAN : DbRun(t, ok)

SpecDB == InitCache /\ [][NextDB]_vars

\* C11 as stated: an operation issued through getDB(c) leaves every collection
\* other than c as it was, and a load through getDB(c) returns what collection c
\* holds under the key, whatever another thread does in between.
C11_OperationsStayInTheirCollection ==
    [][\A t \in Callers :
          (pc[t] = "selected" /\ pc'[t] = "idle")
              => /\ \A c \in CacheCollections \ {req[t].coll} : store'[c] = store[c]
                 /\ ret'.coll = req[t].coll
                 /\ req[t].op = "load"
                       => ret'.value = load(store, req[t].coll, req[t].key, FALSE, now)]_vars

-----------------------------------------------------------------------------
(* The rest of the store adapter: AbstractDB's public reads and writes over  *)
(* MongoDB's primitives.  A primitive that can fail takes ok, FALSE when     *)
(* pymongo raises for a reason outside the documents (the server cannot be   *)
(* reached); a document whose _id is already in the collection makes the     *)
(* insert raise by itself.  A write returns [db, result].                    *)

TIMESTAMP_KEY == "timestamp"

\* the documents of s at the positions idx, in order
RECURSIVE Filter(_, _)
Filter(s, idx) ==
    IF s = <<>> THEN <<>>
    ELSE Filter(SubSeq(s, 1, Len(s) - 1), idx)
         \o (IF Len(s) \in idx THEN <<s[Len(s)]>> ELSE <<>>)

\* a find() filter: every field of q is in the document with the same value
Matches(doc, q) == \A f \in DOMAIN q : f \in DOMAIN doc /\ doc[f] = q[f]

MapSeq(s, Op(_)) == [i \in 1..Len(s) |-> Op(s[i])]

\* MongoDB._get_many, _get_all, _query
_get_many(db, c, key) == MapSeq(Filter(db[c], Matching(db, c, key)), Projected)
_get_all(db, c) == MapSeq(db[c], Projected)
_query(db, c, q) ==
    MapSeq(Filter(db[c], {i \in 1..Len(db[c]) : Matches(db[c][i], q)}), Projected)

\* AbstractDB.get_many, get_all, query
get_many(db, c, key) == MapSeq(_get_many(db, c, key), _remove_key_field)
get_all(db, c) == MapSeq(_get_all(db, c), _remove_key_field)
query(db, c, q) == MapSeq(_query(db, c, q), _remove_key_field)

\* MongoDB.search with the default projection, limit and sort
search(db, c, custom_query) ==
    MapSeq(Filter(db[c], {i \in 1..Len(db[c]) : Matches(db[c][i], custom_query)}), Projected)

\* the server refuses a document whose _id is already in the collection
DuplicateId(docs, doc) ==
    /\ INBUILD_ID_FIELD \in DOMAIN doc
    /\ \E i \in 1..Len(docs) : /\ INBUILD_ID_FIELD \in DOMAIN docs[i]
                               /\ docs[i][INBUILD_ID_FIELD] = doc[INBUILD_ID_FIELD]

\* MongoDB._insert at time t: insert_one({KEY_FIELD: key, TIMESTAMP_KEY: now, **value})
_insert(db, c, value, key, t, ok) ==
    LET doc == value @@ (KEY_FIELD :> key) @@ (TIMESTAMP_KEY :> [t |-> "datetime", v |-> t])
    IN  IF ~ok \/ DuplicateId(db[c], doc) THEN [db |-> db, result |-> FALSE]
        ELSE [db |-> [db EXCEPT ![c] = Append(@, doc)], result |-> TRUE]

\* AbstractDB.insert
insert(db, c, value, key, t, ok) ==
    _insert(db, c, _add_timestamp((KEY_FIELD :> key) @@ value, t), key, t, ok)

\* what an ordered insert_many leaves in the collection: the documents before the
\* first one the server refuses; oks[i] = FALSE is a failure at document i
RECURSIVE InsertedPrefix(_, _, _)
InsertedPrefix(docs, values, oks) ==
    IF values = <<>> \/ ~oks[1] \/ DuplicateId(docs, values[1]) THEN docs
    ELSE InsertedPrefix(Append(docs, values[1]), Tail(values), Tail(oks))

\* MongoDB._insert_many: insert_many(values); it raises unless every document went in
_insert_many(db, c, values, keys, oks) ==
    [db |-> [db EXCEPT ![c] = InsertedPrefix(@, values, oks)],
     result |-> Len(InsertedPrefix(db[c], values, oks)) = Len(db[c]) + Len(values)]

\* AbstractDB.insert_many: zip(keys, values) gives the key field to the values that
\* have a key
insert_many(db, c, values, keys, t, oks) ==
    _insert_many(db, c,
        [i \in 1..Len(values) |->
            _add_timestamp(IF i <= Len(keys) THEN (KEY_FIELD :> keys[i]) @@ values[i]
                           ELSE values[i], t)],
        keys, oks)

\* MongoDB._update: update_one({KEY_FIELD: key}, {"$set": value}); the result is
\* modified_count > 0
_update(db, c, value, key, ok) ==
    IF ~ok \/ Matching(db, c, key) = {} THEN [db |-> db, result |-> FALSE]
    ELSE [db |-> [db EXCEPT ![c][Min(Matching(db, c, key))] = value @@ @],
          result |-> (value @@ db[c][Min(Matching(db, c, key))])
                        # db[c][Min(Matching(db, c, key))]]

\* AbstractDB.update
update(db, c, value, key, t, ok) == _update(db, c, _add_timestamp(value, t), key, ok)

\* MongoDB._delete_many: one _delete per key, in order; a list of results
RECURSIVE _delete_many(_, _, _, _)
_delete_many(db, c, keys, oks) ==
    IF keys = <<>> THEN [db |-> db, result |-> <<>>]
    ELSE CHOOSE r \in
        { [db |-> rest.db,
           result |-> <<_delete_result(db, c, keys[1], oks[1])>> \o rest.result] :
          rest \in {_delete_many(_delete(db, c, keys[1], oks[1]), c, Tail(keys), Tail(oks))} } :
        TRUE


(* SpecAdapter: the adapter's methods called one after another on the        *)
(* collection Modules.                                                       *)

\* insert_one and insert_many add documents: the collection holds at most MaxDocs
MaxDocs == 2

AdapterKeys == {"k1", "k2"}

\* the values written: two plain ones and one that brings its own _id
AdapterValues ==
    { [a |-> PNum(1)], [a |-> PNum(2)], (INBUILD_ID_FIELD :> PNum(7)) @@ [a |-> PNum(1)] }

\* insert_many(values, keys): two plain values, and twice the value with an _id
AdapterBatches ==
    { [values |-> << [a |-> PNum(1)], [a |-> PNum(2)] >>, keys |-> <<"k1", "k2">>],
      [values |-> << (INBUILD_ID_FIELD :> PNum(7)) @@ [a |-> PNum(1)],
                     (INBUILD_ID_FIELD :> PNum(7)) @@ [a |-> PNum(2)] >>,
       keys |-> <<"k1", "k2">>] }

AdapterQueries == { <<>>, [a |-> PNum(1)] }

\* the line a primitive prints when pymongo raises
Printed(what, key, raised) == IF raised THEN {<<what, MODULES_COLLECTION, key>>} ELSE {}

\* one call getDB("Modules").op(...): r is [db, result]
AdapterCall(op, key, r, lines) ==
    /\ store' = r.db
    /\ ret' = [op |-> op, key |-> key, coll |-> MODULES_COLLECTION, get_expired |-> FALSE,
               value |-> r.result, at |-> now]
    /\ log' = lines
    /\ collection' = MODULES_COLLECTION
    /\ UNCHANGED now
    /\ UNCHANGED sow_vars

AdapterInsert(value, key, ok) ==
    /\ Len(store[MODULES_COLLECTION]) < MaxDocs
    /\ \E r \in {insert(store, MODULES_COLLECTION, value, key, now, ok)} :
           AdapterCall("insert", key, r, Printed("Insert failed", key, ~r.result))

AdapterInsertMany(b, oks) ==
    /\ Len(store[MODULES_COLLECTION]) + Len(b.values) <= MaxDocs
    /\ \E r \in {insert_many(store, MODULES_COLLECTION, b.values, b.keys, now, oks)} :
           AdapterCall("insert_many", b.keys, r,
                       Printed("Insert many failed", b.keys, ~r.result))

AdapterUpdate(value, key, ok) ==
    \E r \in {update(store, MODULES_COLLECTION, value, key, now, ok)} :
        AdapterCall("update", key, r, Printed("Update failed", key, ~ok))

AdapterUpsert(value, key, ok) ==
    /\ Matching(store, MODULES_COLLECTION, key) # {} \/ Len(store[MODULES_COLLECTION]) < MaxDocs
    /\ AdapterCall("upsert", key,
                   [db |-> upsert(store, MODULES_COLLECTION, value, key, now, ok),
                    result |-> ok],
                   Printed("Upsert failed", key, ~ok))

AdapterDelete(key, ok) ==
    AdapterCall("delete", key,
                [db |-> _delete(store, MODULES_COLLECTION, key, ok),
                 result |-> _delete_result(store, MODULES_COLLECTION, key, ok)],
                Printed("Delete failed", key, ~ok))

AdapterDeleteMany(keys, oks) ==
    \E r \in {_delete_many(store, MODULES_COLLECTION, keys, oks)} :
        AdapterCall("delete_many", keys, r,
                    UNION {Printed("Delete failed", keys[i], ~oks[i]) : i \in 1..Len(keys)})

\* get, get_many, get_all, query and search: docs is what the method returns
AdapterRead(op, key, docs) ==
    AdapterCall(op, key, [db |-> store, result |-> docs], {})

NextAdapter ==
    \/ \E v \in AdapterValues, k \in AdapterKeys, ok \in BOOLEAN : AdapterInsert(v, k, ok)
    \/ \E b \in AdapterBatches, oks \in [1..2 -> BOOLEAN] : AdapterInsertMany(b, oks)
    \/ \E v \in AdapterValues, k \in AdapterKeys, ok \in BOOLEAN : AdapterUpdate(v, k, ok)
    \/ \E v \in AdapterValues, k \in AdapterKeys, ok \in BOOLEAN : AdapterUpsert(v, k, ok)
    \/ \E k \in AdapterKeys, ok \in BOOLEAN : AdapterDelete(k, ok)
    \/ \E oks \in [1..2 -> BOOLEAN] : AdapterDeleteMany(<<"k1", "k2">>, oks)
    \/ \E k \in AdapterKeys : AdapterRead("get", k, <<get(store, MODULES_COLLECTION, k)>>)
    \/ \E k \in AdapterKeys : AdapterRead("get_many", k, get_many(store, MODULES_COLLECTION, k))
    \/ AdapterRead("get_all", "", get_all(store, MODULES_COLLECTION))
    \/ \E q \in AdapterQueries : AdapterRead("query", "", query(store, MODULES_COLLECTION, q))
    \/ \E q \in AdapterQueries : AdapterRead("search", "", search(store, MODULES_COLLECTION, q))

SpecAdapter == InitCache /\ [][NextAdapter]_vars

-----------------------------------------------------------------------------
(* SpecQuery: cache_utils.query over records the cache saved.  A filter is a *)
(* function from keys to values; a key of the filter handed to find() is the *)
(* path it names, split at the dots.                                         *)

\* the value of a top-level field of a stored document; the hidden key is a str
DocValue(doc, f) == IF f = KEY_FIELD THEN PStr(doc[f]) ELSE doc[f]

\* the values find() reaches below value v along path: a path goes through the
\* fields of embedded documents and through the elements of arrays
RECURSIVE Reach(_, _)
Reach(v, path) ==
    IF path = <<>> THEN {v}
    ELSE IF v.t = "dict"
         THEN IF Head(path) \in DOMAIN v.v THEN Reach(v.v[Head(path)], Tail(path)) ELSE {}
         ELSE IF v.t = "list"
              THEN UNION {Reach(v.v[i], path) : i \in DOMAIN v.v}
              ELSE {}

BsonEqual(a, b) == a.t = b.t /\ a = b

\* find()'s equality condition {path: v} on one document: a reached value is v
\* or an array with an element v; null also matches a document without the path
PathMatches(doc, path, v) ==
    LET reached == IF Head(path) \in DOMAIN doc
                   THEN Reach(DocValue(doc, Head(path)), Tail(path))
                   ELSE {}
    IN  \/ \E r \in reached :
               \/ BsonEqual(r, v)
               \/ r.t = "list" /\ \E i \in DOMAIN r.v : BsonEqual(r.v[i], v)
        \/ v = PNone /\ reached = {}

\* MongoDB._query with a filter of paths
_query_paths(db, c, pq) ==
    MapSeq(Filter(db[c], {i \in 1..Len(db[c]) :
                             \A path \in DOMAIN pq : PathMatches(db[c][i], path, pq[path])}),
           Projected)

\* a filter passed on as it is: the keys name top-level fields of the document
unscoped(q) == [path \in {<<k>> : k \in DOMAIN q} |-> q[path[1]]]

\* query(), lines 95-98: every str key k becomes "data.k"
scoped(q) == [path \in {<<"data", k>> : k \in DOMAIN q} |-> q[path[2]]]

\* cache_utils.query(query, collection): the list it returns
cache_query(db, c, q) ==
    LET documents == MapSeq(_query_paths(db, c, scoped(q)), _remove_key_field)
    IN  [i \in 1..Len(documents) |-> documents[i]["data"]]

\* payloads saved: mappings with a number, two fields, an array, no field x, a
\* null, and fields named like the wrapper's
QueryPayloads ==
    { PDict([x |-> PNum(1)]), PDict([x |-> PNum(1), y |-> PNum(2)]),
      PDict([x |-> PList(<<PNum(1), PNum(3)>>)]), PDict([y |-> PNum(2)]),
      PDict([x |-> PNone]), PDict((KEY_FIELD :> PStr("k1")) @@ [expires_at |-> PNone]) }

QueryFilters ==
    { <<>>, [x |-> PNum(1)], [x |-> PNum(1), y |-> PNum(2)], [x |-> PNone],
      [x |-> PList(<<PNum(1), PNum(3)>>)], [expires_at |-> PNone],
      (KEY_FIELD :> PStr("k1")), (TIMESTAMP_FIELD :> isoformat(0)) }

CacheQuery(q, c) ==
    /\ ret' = [op |-> "query", key |-> "", coll |-> c, get_expired |-> FALSE,
               value |-> [filter |-> q, items |-> cache_query(store, c, q)], at |-> now]
    /\ collection' = c
    /\ UNCHANGED <<store, now, log>>

NextQuery ==
    \/ \E k \in CacheKeys, d \in QueryPayloads, ttl \in TTLs :
           CacheSave(k, "Modules", d, ttl, TRUE) /\ UNCHANGED sow_vars
    \/ \E q \in QueryFilters, c \in CacheCollections : CacheQuery(q, c) /\ UNCHANGED sow_vars

SpecQuery == InitCache /\ [][NextQuery]_vars

-----------------------------------------------------------------------------
(* Properties of the store adapter (SpecDB, SpecAdapter) *)

AdapterReads == {"get", "get_many", "get_all", "query", "search"}

\* the adapter method op has returned in this step
Returns(op) == now' = now /\ ret'.op = op

\* document doc carries the hidden key field with value key, and a write timestamp
Stamped(doc, key) ==
    /\ KEY_FIELD \in DOMAIN doc /\ doc[KEY_FIELD] = key
    /\ TIMESTAMP_FIELD \in DOMAIN doc

\* C12 as stated: after a successful insert, update or upsert with key k the
\* collection holds a document with hidden key k and a timestamp; a successful
\* insert_many leaves each new document with its key and a timestamp; and no
\* document returned by get, get_many, get_all, query or search has the hidden key
\* field.
C12_FieldHygiene ==
    [][/\ \A op \in {"insert", "update", "upsert"} :
              (Returns(op) /\ ret'.value)
                  => \E i \in 1..Len(store'[MODULES_COLLECTION]) :
                         Stamped(store'[MODULES_COLLECTION][i], ret'.key)
       /\ (Returns("insert_many") /\ ret'.value)
              => /\ Len(store'[MODULES_COLLECTION])
                        = Len(store[MODULES_COLLECTION]) + Len(ret'.key)
                 /\ \A j \in 1..Len(ret'.key) :
                        Stamped(store'[MODULES_COLLECTION][Len(store[MODULES_COLLECTION]) + j],
                                ret'.key[j])
       /\ \A op \in AdapterReads :
              Returns(op) => \A i \in 1..Len(ret'.value) : KEY_FIELD \notin DOMAIN ret'.value[i]
      ]_vars

\* the primitive behind op printed a failure for key in this step
Failed(op, what, key) == Returns(op) /\ <<what, MODULES_COLLECTION, key>> \in log'

\* a failed insert, update, upsert or delete returns False and changes nothing
SingleWriteFailures ==
    \A k \in AdapterKeys :
        /\ Failed("insert", "Insert failed", k) => (ret'.value = FALSE /\ store' = store)
        /\ Failed("update", "Update failed", k) => (ret'.value = FALSE /\ store' = store)
        /\ Failed("upsert", "Upsert failed", k) => (ret'.value = FALSE /\ store' = store)
        /\ Failed("delete", "Delete failed", k) => (ret'.value = FALSE /\ store' = store)

\* the documents stored under key, in order
Under(db, key) == Filter(db[MODULES_COLLECTION], Matching(db, MODULES_COLLECTION, key))

\* C13 as stated: a storage failure during insert, insert_many, update, upsert,
\* delete or delete_many is reported as False (for delete_many: False for some key),
\* and the failed call leaves the store as it was.
C13_FailedWriteChangesNothing ==
    [][/\ SingleWriteFailures
       /\ \A b \in AdapterBatches :
              Failed("insert_many", "Insert many failed", b.keys)
                  => (ret'.value = FALSE /\ store' = store)
       /\ \A k \in AdapterKeys :
              Failed("delete_many", "Delete failed", k)
                  => ((\E i \in 1..Len(ret'.value) : ~ret'.value[i]) /\ store' = store)
      ]_vars

\* C13 amended: a storage failure during an adapter write is printed and reported
\* as False, never raised; a failed insert, update, upsert or delete leaves the store
\* as it was; a failed insert_many returns False but leaves in the collection the
\* documents that went in before the one that failed; delete_many returns one result
\* per key, False for a key whose delete failed, whose documents stay, while the
\* other keys are deleted.
C13_WriteFailurePolicy ==
    [][/\ SingleWriteFailures
       /\ \A b \in AdapterBatches :
              Failed("insert_many", "Insert many failed", b.keys)
                  => /\ ret'.value = FALSE
                     /\ Len(store'[MODULES_COLLECTION])
                            < Len(store[MODULES_COLLECTION]) + Len(b.values)
                     /\ SubSeq(store'[MODULES_COLLECTION], 1, Len(store[MODULES_COLLECTION]))
                            = store[MODULES_COLLECTION]
       /\ \A i \in 1..Len(ret'.key) :
              Failed("delete_many", "Delete failed", ret'.key[i])
                  => /\ Len(ret'.value) = Len(ret'.key)
                     /\ ret'.value[i] = FALSE
                     /\ Under(store', ret'.key[i]) = Under(store, ret'.key[i])
      ]_vars

\* an insert_many failed on its second document and returned False; the first one
\* is in the collection
C13_Witness ==
    /\ ret.op = "insert_many" /\ ret.value = FALSE
    /\ <<"Insert many failed", MODULES_COLLECTION, ret.key>> \in log
    /\ Len(store[MODULES_COLLECTION]) = 1
    /\ INBUILD_ID_FIELD \in DOMAIN store[MODULES_COLLECTION][1]

-----------------------------------------------------------------------------
(* Properties of the cache read path (SpecRead) *)

\* caller c starts a from_sow call with regenerate = False in this step
StartsCacheCheck(c) == pc[c] = "idle" /\ pc'[c] # "idle" /\ ~req'[c].regenerate

\* C14: a from_sow call that checks the cache never fails there: whatever is wrong
\* with the read (payload that does not validate, malformed wrapper, store read
\* error) it either returns the cached artifact or goes on to generate, and no
\* exception reaches the caller.
C14_CacheReadFailureIsAMiss ==
    [][\A c \in Callers :
           StartsCacheCheck(c)
               => /\ error'[c] = "none"
                  /\ pc'[c] \in {"done", "generating"}
                  /\ (pc'[c] = "done" => result'[c].cached)
      ]_vars

\* the part of C14 the code does implement: a record whose payload does not
\* validate, or whose data is not a dict, is a miss and the call generates
SchemaMismatchIsAMiss ==
    [][\A c \in Callers :
           (/\ StartsCacheCheck(c)
            /\ store[MODULES_COLLECTION] \in {<<LegacyDoc>>, <<NoDataDoc>>}
            /\ req'[c].sow = "sowA"
            /\ error'[c] # "PyMongoError")
               => (pc'[c] = "generating" /\ error'[c] = "none")
      ]_vars

-----------------------------------------------------------------------------
(* Properties of the pipeline's steps (Spec) *)

\* the backend call of caller c's request has failed
BackendFailed(c) == error[c] = "BackendError"

\* C15: when the backend call of a from_sow request fails, the request ends with
\* that failure and no artifact, the backend was called exactly once for it, no
\* background write was started for it, and the failing step leaves the store and
\* every background thread as they were.
C15_BackendFailureFatal ==
    /\ [](\A c \in Callers :
              BackendFailed(c) => /\ pc[c] = "failed"
                                  /\ backend[c] = 1
                                  /\ bg[c] = NoThread
                                  /\ ~result[c].ok)
    /\ [][\A c \in Callers :
              (BackendFailed(c)' /\ ~BackendFailed(c)) => (store' = store /\ bg' = bg)]_vars

\* a request failed at its backend call after a cache miss on an empty store
C15_Witness ==
    \E c \in Callers :
        /\ BackendFailed(c) /\ pc[c] = "failed" /\ backend[c] = 1
        /\ ~req[c].regenerate
        /\ store[MODULES_COLLECTION] = <<>>

\* the steps of one request, as changes of its position: the cache check (hit or
\* miss), the backend request, and parse-rank-persist-return
PipelineSteps ==
    {<<"idle", "done">>, <<"idle", "generating">>, <<"generating", "parsing">>,
     <<"parsing", "done">>}

\* the steps on which a request ends with an exception
FailureSteps == {<<"generating", "failed">>, <<"parsing", "failed">>}

\* the cache was read under caller c's fingerprint in this step
CacheChecked(c) ==
    /\ ret'.op = "load" /\ ret'.key = hash_uuid(req'[c].sow)
    /\ ret'.coll = MODULES_COLLECTION /\ ret'.at = now

\* what holds of a request at each position
PositionInvariant ==
    \A c \in Callers :
        /\ backend[c] <= 1
        /\ pc[c] \in {"idle", "generating"} => (backend[c] = 0 /\ bg[c] = NoThread)
        /\ pc[c] = "parsing" => (backend[c] = 1 /\ bg[c] = NoThread)
        /\ (pc[c] = "done" /\ result[c].cached) => (backend[c] = 0 /\ bg[c] = NoThread)
        /\ (pc[c] = "done" /\ ~result[c].cached)
               => /\ backend[c] = 1
                  /\ bg[c].state # "none"
                  /\ bg[c].key = hash_uuid(req[c].sow)
                  /\ bg[c].data = to_dict(result[c].obj)
        /\ pc[c] = "failed" => bg[c] = NoThread

\* what each step of a request does besides moving it
StepEffects(c) ==
    /\ backend'[c] # backend[c] => (pc[c] = "generating" /\ backend'[c] = 1)
    /\ responses'[c] # responses[c]
           => (pc[c] = "generating" /\ pc'[c] = "parsing"
               /\ Len(responses'[c]) <= req[c].best_of)
    /\ (bg'[c].state = "pending" /\ bg[c].state # "pending")
           => (bg[c] = NoThread /\ pc[c] = "parsing" /\ pc'[c] = "done")
    /\ (pc[c] = "idle" /\ pc'[c] = "done")
           => (result'[c].cached /\ backend' = backend /\ bg' = bg /\ store' = store)

WriteCompletes(c) == bg[c].state = "pending" /\ bg'[c].state = "saved"

\* the record under caller c's fingerprint still is the one c's write stored, and
\* it has not expired
RecordOf(c) ==
    /\ bg[c].state = "saved"
    /\ HasEntry(MODULES_COLLECTION, KeyOf(c))
    /\ Entry(MODULES_COLLECTION, KeyOf(c))["data"] = to_dict(result[c].obj)
    /\ Unexpired(Entry(MODULES_COLLECTION, KeyOf(c)), now)

\* load_from_cache of caller c's fingerprint yields an artifact equal to c's result
LoadsResultOf(c) ==
    \E r \in {load_from_cache(store, KeyOf(c), FALSE, now)} :
        r.ok /\ r.cached /\ to_dict(r.obj) = to_dict(result[c].obj)

-----------------------------------------------------------------------------
(* Short batches (SpecRank) *)

\* the backend answered caller c with fewer completions than the n it was asked for
ShortBatch(c) == MissedAndAnswered(c) /\ Len(responses[c]) < req[c].best_of

\* C18: when the backend returns fewer completions than requested and at least one
\* of them parses into an artifact (with numeric hours), the call returns the
\* best-ranked parseable candidate among them and does not fail.
C18_FewerCompletionsTolerated ==
    \A c \in Callers :
        (/\ ShortBatch(c)
         /\ Parseable(responses[c]) # {}
         /\ \A i \in Parseable(responses[c]) : ~hours_raises(from_yaml(responses[c][i]).obj))
            => /\ pc[c] = "done" /\ result[c].ok
               /\ MaximumOf(result[c].obj, responses[c])

\* what the code does with a short batch: it returns the maximum when every
\* completion of the batch parses, and fails as soon as one does not or none came
ShortBatchLikeFullBatch ==
    \A c \in Callers :
        ShortBatch(c)
            => IF AllParsed(c)
               THEN pc[c] = "done" /\ result[c].ok /\ MaximumOf(result[c].obj, responses[c])
               ELSE pc[c] = "failed" /\ error[c] # "none" /\ bg[c] = NoThread

-----------------------------------------------------------------------------
(* Encoding round trips (SpecCodec) *)

\* BaseModel.__eq__: equal YAML encodings
Equal(a, b) == to_yaml(a) = to_yaml(b)

\* C19: decoding the JSON or the YAML encoding of an artifact succeeds and yields
\* an artifact equal to it, whatever its string fields and hours are.
C19_EncodingRoundTrip ==
    pc[1] = "decoded" => (ret.value.ok /\ Equal(ret.value.obj, result[1].obj))

\* what the code does: the YAML round trip holds for every artifact whose hours
\* are numbers, the JSON round trip for those of them no str of which holds
\* a blank, two slashes and a blank; on the others decoding raises
RoundTripWhereItHolds ==
    pc[1] = "decoded"
        => IF ret.op = "from_json" /\ comment_in(to_dict(result[1].obj))
           THEN ret.value.error = "JSONDecodeError"
           ELSE IF hours_raises(result[1].obj) THEN ret.value.error = "ValidationError"
           ELSE ret.value.ok /\ Equal(ret.value.obj, result[1].obj)

-----------------------------------------------------------------------------
(* Approximate field matching (SpecFuzzy) *)

\* the best score of field f among the incoming keys, 0 without any key
BestScore(f) ==
    IF DOMAIN req[1].data.v = {} THEN 0
    ELSE CHOOSE n \in ScoreValues :
             /\ \E k \in DOMAIN req[1].data.v : req[1].score[<<f, k>>] = n
             /\ \A k \in DOMAIN req[1].data.v : req[1].score[<<f, k>>] <= n

\* field f has a candidate key and its best score is at or above the cutoff the
\* caller supplied
Accepted(f) == DOMAIN req[1].data.v # {} /\ BestScore(f) * 100 >= req[1].cutoff.v

\* C20: a field takes the incoming key with the best score exactly when that score
\* is at or above the caller's cutoff; a field below the cutoff or without any
\* candidate key keeps its default; and the call does not fail on the matching.
C20_FuzzyHonoursCutoff ==
    pc[1] = "decoded"
        => /\ ret.value.error # "KeyError"
           /\ \A f \in model_fields :
                  IF Accepted(f)
                  THEN /\ f \in DOMAIN ret.cols
                       /\ ret.cols[f] \in DOMAIN req[1].data.v
                       /\ req[1].score[<<f, ret.cols[f]>>] = BestScore(f)
                  ELSE f \notin DOMAIN ret.cols

\* the part of C20 the code implements: with a float cutoff between 0 and 1 and at
\* least one incoming key, a field is matched iff its best score is at or above it
CutoffWithinUnitInterval ==
    (/\ pc[1] = "decoded"
     /\ req[1].cutoff.t = "float" /\ req[1].cutoff.v \in 0..100
     /\ DOMAIN req[1].data.v # {})
        => /\ ret.value.error # "KeyError"
           /\ \A f \in model_fields : f \in DOMAIN ret.cols <=> Accepted(f)

-----------------------------------------------------------------------------
(* Derived aggregates (SpecTree) *)

\* the positions of the leaf categories of artifact o
Leaves(o) ==
    {<<i, j, k>> \in (1..MaxLeaves) \X (1..MaxLeaves) \X (1..MaxLeaves) :
        /\ i \in DOMAIN o.modules
        /\ j \in DOMAIN o.modules[i].tasks
        /\ k \in DOMAIN o.modules[i].tasks[j].categories}

LeafHours(o, l) == o.modules[l[1]].tasks[l[2]].categories[l[3]].hours.v

RECURSIVE LeafSum(_, _)
\* the sum of the hours of the leaves at the positions in S
LeafSum(o, S) ==
    IF S = {} THEN 0
    ELSE LET l == CHOOSE x \in S : TRUE IN LeafHours(o, l) + LeafSum(o, S \ {l})

\* the aggregates of every node of o are the sums over the leaves below it
AggregatesOf(o) ==
    /\ hours(o) = LeafSum(o, Leaves(o))
    /\ subtasks(o) = Cardinality(Leaves(o))
    /\ \A i \in DOMAIN o.modules :
           /\ ModuleModel_hours(o.modules[i]) = LeafSum(o, {l \in Leaves(o) : l[1] = i})
           /\ ModuleModel_subtasks(o.modules[i]) = Cardinality({l \in Leaves(o) : l[1] = i})
           /\ \A j \in DOMAIN o.modules[i].tasks :
                  /\ TaskModel_hours(o.modules[i].tasks[j])
                         = LeafSum(o, {l \in Leaves(o) : l[1] = i /\ l[2] = j})
                  /\ TaskModel_subtasks(o.modules[i].tasks[j])
                         = Cardinality({l \in Leaves(o) : l[1] = i /\ l[2] = j})

\* the encoding of o stores no aggregate at any level
NoStoredAggregate(o) ==
    /\ DOMAIN to_dict(o).v = {"project_name", "modules"}
    /\ \A i \in DOMAIN o.modules :
           /\ DOMAIN ModuleModel_to_dict(o.modules[i]).v = {"module", "short_name", "tasks"}
           /\ \A j \in DOMAIN o.modules[i].tasks :
                  DOMAIN TaskModel_to_dict(o.modules[i].tasks[j]).v
                      = {"task", "description", "categories", "short_name"}

\* C21: at every node of every artifact tree with numeric leaf hours, hours is the
\* sum of the hours of the leaf categories below it and subtasks their number; the
\* aggregates are not part of the stored tree, and a read after a leaf was changed
\* returns the aggregates of the tree as it is then.
C21_AggregatesFromTree ==
    /\ [](AggregatesOf(result[1].obj) /\ NoStoredAggregate(result[1].obj))
    /\ [](ret.op = "aggregates"
              => /\ ret.value.hours = LeafSum(result[1].obj, Leaves(result[1].obj))
                 /\ ret.value.subtasks = Cardinality(Leaves(result[1].obj)))

\* the aggregates of a tree of two modules, the first with two tasks, were read:
\* 3 leaves, 3 hours
C21_Witness ==
    /\ ret.op = "aggregates"
    /\ Len(result[1].obj.modules) = 2
    /\ Len(result[1].obj.modules[1].tasks) = 2
    /\ Cardinality(Leaves(result[1].obj)) = 3
    /\ ret.value = [hours |-> 3, subtasks |-> 3]

-----------------------------------------------------------------------------
(* Properties of the fingerprint (SpecKey) *)

\* two fingerprints in a row: the earlier call is req[1], the later one req'[1]
TwoFingerprints == ret.op = "fingerprint" /\ ret'.op = "fingerprint"

-----------------------------------------------------------------------------
(* Properties of the cache query (SpecQuery) *)

\* the payloads of the records of collection c, in the order of the store
PayloadsOf(c) == [i \in 1..Len(store[c]) |-> store[c][i]["data"]]

\* payload p has a field x whose value is v
FieldEquals(p, x, v) == x \in DOMAIN p.v /\ BsonEqual(p.v[x], v)

\* the store's reading of the condition {x: v} on payload p: the field is v, or
\* an array one of whose elements is v, or v is null and p has no field x
FieldMatches(p, x, v) ==
    \/ FieldEquals(p, x, v)
    \/ x \in DOMAIN p.v /\ p.v[x].t = "list" /\ \E i \in DOMAIN p.v[x].v : BsonEqual(p.v[x].v[i], v)
    \/ x \notin DOMAIN p.v /\ v = PNone

\* C23 as stated: query returns exactly the payloads of the stored records whose
\* payload field x equals v for every (x, v) of the filter
C23_QueryByFieldEquality ==
    ret.op = "query" =>
        ret.value.items =
            SelectSeq(PayloadsOf(ret.coll),
                      LAMBDA p : \A x \in DOMAIN ret.value.filter :
                                     FieldEquals(p, x, ret.value.filter[x]))

\* C23: query returns exactly the payloads, without wrapper fields and in the
\* order of the store, of the stored records whose payload satisfies the store's
\* equality condition for every (x, v) of the filter; the result is determined
\* by the payloads alone, whatever the wrappers' key, timestamp and expiry are
C23_QueryScopedToPayload ==
    ret.op = "query" =>
        ret.value.items =
            SelectSeq(PayloadsOf(ret.coll),
                      LAMBDA p : \A x \in DOMAIN ret.value.filter :
                                     FieldMatches(p, x, ret.value.filter[x]))

\* a filter on the hidden key's name with the key of the first record as its
\* value returns the second record's payload, which has such a field, and not
\* the first record, whose wrapper has it
C23_Witness ==
    /\ ret.op = "query"
    /\ ret.value.filter = (KEY_FIELD :> PStr("k1"))
    /\ Len(store[ret.coll]) = 2
    /\ store[ret.coll][1][KEY_FIELD] = "k1"
    /\ PayloadsOf(ret.coll)[1] = PDict([x |-> PNum(1)])
    /\ ret.value.items = <<PayloadsOf(ret.coll)[2]>>

-----------------------------------------------------------------------------
(* Leaf hours (SpecRank) *)

\* every leaf category of artifact o has a number >= 0 as its hours
NumericLeaves(o) ==
    \A i \in DOMAIN o.modules :
        \A j \in DOMAIN o.modules[i].tasks :
            \A k \in DOMAIN o.modules[i].tasks[j].categories :
                LET h == o.modules[i].tasks[j].categories[k].hours
                IN  h.t = "num" /\ h.v >= 0

\* C24: every artifact the decoder accepts has a numeric hours >= 0 at every
\* leaf category; here the decoder is from_yaml on the completions of a batch
C24_LeafHoursNonNegative ==
    \A i \in DOMAIN responses[1] :
        from_yaml(responses[1][i]).ok => NumericLeaves(from_yaml(responses[1][i]).obj)

-----------------------------------------------------------------------------
(* Drifted field names (SpecDrift) *)

\* C25: from_sow decodes each completion with approximate field matching: what
\* it makes of a completion is what from_yaml with fuzzy=True makes of it, so
\* the fields of a completion with drifted top-level names are populated
C25_PipelineParsesLeniently ==
    \A i \in DOMAIN responses[1] :
        /\ from_yaml(responses[1][i]) = from_yaml_fuzzy(responses[1][i])
        /\ responses[1][i] = DriftCompletion =>
               from_yaml(responses[1][i]).obj.project_name = "D"

-----------------------------------------------------------------------------
(* Forced regeneration (Spec) *)

\* caller c starts a from_sow call with regenerate = True in this step
StartsRegenerating(c) == pc[c] = "idle" /\ pc'[c] # "idle" /\ req'[c].regenerate

\* C26: a from_sow call with regenerate = True does not read the cache (its
\* first step leaves the store, the adapter's collection, the log and the last
\* cache result as they are and goes on to generate), it cannot get past
\* generation without its one backend call and never returns a cached artifact,
\* whatever the cache holds, and when its background write completes the one
\* record under its fingerprint is the new winner, expiring 90 days later
C26_RegenerateBypassesCache ==
    /\ [](\A c \in Callers :
              req[c].regenerate
                  => /\ pc[c] \in {"parsing", "done", "failed"} => backend[c] = 1
                     /\ pc[c] = "done" => ~result[c].cached)
    /\ [][\A c \in Callers :
              /\ StartsRegenerating(c)
                     => /\ pc'[c] = "generating"
                        /\ UNCHANGED <<store, collection, log, ret, result>>
              /\ (WriteCompletes(c) /\ req[c].regenerate)
                     => /\ OneRecord(store', KeyOf(c), to_dict(result[c].obj))
                        /\ Entry(MODULES_COLLECTION, KeyOf(c))'["expires_at"]
                               = isoformat(now + EXPIRE_AFTER_SECONDS)]_vars

\* the cache held an unexpired plan for sowA, which one caller got from it; the
\* other caller regenerated, and its write replaced that plan by another winner
C26_Witness ==
    \E c, d \in Callers :
        /\ req[c].sow = "sowA" /\ req[c].regenerate /\ pc[c] = "done"
        /\ bg[c].state = "saved" /\ backend[c] = 1
        /\ req[d].sow = "sowA" /\ pc[d] = "done" /\ result[d].cached
        /\ result[d].obj = PlanB
        /\ now < EXPIRE_AFTER_SECONDS
        /\ OneRecord(store, KeyOf(c), to_dict(result[c].obj))
        /\ result[c].obj # PlanB

-----------------------------------------------------------------------------
(* Independent requests (SpecIndep) *)

\* the keys in use: the two fingerprints and the keys of the direct calls
IndepKeys == {hash_uuid("sowA"), hash_uuid("sowB")} \cup CacheKeys

\* the documents of collection c stored under key, in order
RecordsUnder(db, c, key) == Filter(db[c], Matching(db, c, key))

\* C27: every step that changes the store is a cache save or delete (the
\* background write of a request included) for one key of one collection, and
\* it leaves the records under every other key, and every other collection, as
\* they were; so with two requests for different texts and direct calls under
\* other keys in any interleaving, each request whose background write has
\* completed has exactly one record under its fingerprint, holding its winner
C27_IndependentRequests ==
    /\ [](\A c \in Callers :
              bg[c].state = "saved" => OneRecord(store, KeyOf(c), to_dict(result[c].obj)))
    /\ [][store' # store
              => /\ ret'.op \in {"save", "delete"}
                 /\ \A c \in CacheCollections : c # ret'.coll => store'[c] = store[c]
                 /\ \A k \in IndepKeys \ {ret'.key} :
                        RecordsUnder(store', ret'.coll, k) = RecordsUnder(store, ret'.coll, k)]_vars

\* both requests generated and stored their winners, different ones, while a
\* record saved directly under k1 and the record left by an earlier request
\* lie in the same collection
C27_Witness ==
    /\ \A c \in Callers : pc[c] = "done" /\ bg[c].state = "saved" /\ ~result[c].cached
    /\ req[1].sow = "sowA" /\ req[2].sow = "sowB"
    /\ result[1].obj # result[2].obj
    /\ OneRecord(store, KeyOf(1), to_dict(result[1].obj))
    /\ OneRecord(store, KeyOf(2), to_dict(result[2].obj))
    /\ OneRecord(store, "k1", PDict([x |-> PNum(1)]))
    /\ Len(store[MODULES_COLLECTION]) = 3

-----------------------------------------------------------------------------
(* Ties in the ranking (SpecRank) *)

\* the positions of the completions whose candidate is a maximum
MaximalAt(resps) == {i \in Parseable(resps) : MaximumOf(from_yaml(resps[i]).obj, resps)}

\* C28: the artifact a call generates is the candidate of the first completion,
\* in the order of the backend's response, whose (subtasks, hours) is the maximum
C28_FirstOfEqualsWins ==
    (pc[1] = "done" /\ ~result[1].cached)
        => /\ MaximalAt(responses[1]) # {}
           /\ result[1].obj = from_yaml(responses[1][Min(MaximalAt(responses[1]))]).obj

\* the second and the third completion both have 2 subtasks and 5 hours, the
\* maximum; the second one, PlanD, was returned
C28_Witness ==
    /\ pc[1] = "done" /\ ~result[1].cached
    /\ responses[1] = <<Yaml(to_dict(PlanA)), Yaml(to_dict(PlanD)), Yaml(to_dict(PlanC))>>
    /\ MaximalAt(responses[1]) = {2, 3}
    /\ PlanC # PlanD
    /\ result[1].obj = PlanD

-----------------------------------------------------------------------------
(* Expired entries (SpecExpired) *)

\* the entry under the fingerprint of sow has expired at time t
ExpiredEntry(db, sow, t) ==
    /\ Matching(db, MODULES_COLLECTION, hash_uuid(sow)) # {}
    /\ ~Unexpired(_get(db, MODULES_COLLECTION, hash_uuid(sow)), t)

-----------------------------------------------------------------------------
(* Key uniqueness (SpecRace) *)

\* C30: whatever the sequence and interleaving of cache saves and deletes, at
\* most one record of a collection carries a given key, and its data and
\* expires_at are those of one save: the expiry is the ttl after its timestamp
C30_OneRecordPerKey ==
    \A c \in CacheCollections :
        /\ \A i, j \in DOMAIN store[c] :
               store[c][i][KEY_FIELD] = store[c][j][KEY_FIELD] => i = j
        /\ \A i \in DOMAIN store[c] :
               fromisoformat(store[c][i]["expires_at"])
                   = fromisoformat(store[c][i][TIMESTAMP_FIELD]) + EXPIRE_AFTER_SECONDS

====
